---- MODULE Spec2Model ----
(***************************************************************************)
(* A model of the three batch scripts of the portfolio repository:         *)
(*   scripts/build_site.py                        (CSV -> JSON, PDF, DOCX) *)
(*   scripts/fetch_scholar_metrics_serpapi.py     (metrics.json)           *)
(*   scripts/fetch_scholar_publications_serpapi.py (scholar_publications)   *)
(*                                                                         *)
(* Text is a sequence of one-character strings, so that parsing, case      *)
(* folding, substring search and escaping are computed rather than assumed.*)
(* Floats are fixed-point integers in units of 1/Scale.                    *)
(***************************************************************************)
EXTENDS Integers, Sequences, FiniteSets, TLC

VARIABLES
    pc,            \* position of the running script
    exc,           \* the exception that ended the run, or "none"
    profileFile,   \* data/profile.json           (build_site input)
    metricsFile,   \* data/metrics.json           (input of build_site and of the publications fetch)
    csvFile,       \* data/publications.csv: [st, rows]
    docxAvail,     \* whether `from docx import Document` succeeds
    profile,       \* main's local `profile`
    metrics,       \* main's local `metrics`
    df,            \* main's local `df`: the rows with their coerced columns
    encTried,      \* load_publications_df: the encodings tried, in order
    summary,       \* main's local `summary`
    outFiles,      \* the output files: name -> [written, content]
    log,           \* the file opens and HTTP requests of the run, in order
    script,        \* which script runs
    env,           \* environment variables of the fetch scripts
    server,        \* the pages the remote API will serve, in request order
    url,           \* fetch_all_articles: local `url`
    params,        \* fetch_all_articles: local `params` (the query dict, or None)
    items,         \* fetch_all_articles: local `items`
    authorId,      \* main's local `author_id` of the fetch scripts
    sent,          \* the HTTP requests sent, in order, each with its url and params
    data           \* fetch_scholar_metrics_serpapi.main: local `data`

vars == <<pc, exc, profileFile, metricsFile, csvFile, docxAvail, profile, metrics,
          df, encTried, summary, outFiles, log, script, env, server, url, params,
          items, authorId, sent, data>>

buildVars == <<profileFile, metricsFile, csvFile, docxAvail, profile, metrics, df,
               encTried, summary, outFiles>>

fetchVars == <<env, server, url, params, items, authorId, sent, data>>

-----------------------------------------------------------------------------
(* Bounds of the model.                                                    *)

\* the longest CSV table of the numeric-coercion specification
MaxRows == 2

\* the longest CSV table of the sorting specification
MaxSortRows == 3

\* the longest CSV table of the CV-rendering specification
MaxCvRows == 2

\* the longest CSV table of the encoding specification
MaxEncRows == 2

\* the most result pages the remote API serves
MaxPages == 3

-----------------------------------------------------------------------------
(* Text helpers: Python str operations on character sequences.             *)

Digits == <<"0", "1", "2", "3", "4", "5", "6", "7", "8", "9">>

IsDigit(c) == \E i \in 1..10 : Digits[i] = c

DigitVal(c) == (CHOOSE i \in 1..10 : Digits[i] = c) - 1

LowerLetters == <<"a", "b", "c", "d", "e", "f", "g", "h", "i", "j", "k", "l", "m",
                  "n", "o", "p", "q", "r", "s", "t", "u", "v", "w", "x", "y", "z">>

UpperLetters == <<"A", "B", "C", "D", "E", "F", "G", "H", "I", "J", "K", "L", "M",
                  "N", "O", "P", "Q", "R", "S", "T", "U", "V", "W", "X", "Y", "Z">>

\* str.upper() on one character
UpperChar(c) ==
    IF \E i \in 1..26 : LowerLetters[i] = c
    THEN UpperLetters[CHOOSE i \in 1..26 : LowerLetters[i] = c]
    ELSE c

\* str.lower() on one character
LowerChar(c) ==
    IF \E i \in 1..26 : UpperLetters[i] = c
    THEN LowerLetters[CHOOSE i \in 1..26 : UpperLetters[i] = c]
    ELSE c

StrUpper(s) == [i \in 1..Len(s) |-> UpperChar(s[i])]

StrLower(s) == [i \in 1..Len(s) |-> LowerChar(s[i])]

\* pandas str.contains(pat) for a literal pattern: pat occurs in s
StrContains(s, pat) ==
    \E i \in 0..(Len(s) - Len(pat)) : SubSeq(s, i + 1, i + Len(pat)) = pat

\* str.strip(): leading and trailing blanks removed
RECURSIVE StripLeft(_)
StripLeft(s) == IF s # <<>> /\ Head(s) = " " THEN StripLeft(Tail(s)) ELSE s

RECURSIVE StripRight(_)
StripRight(s) ==
    IF s # <<>> /\ s[Len(s)] = " " THEN StripRight(SubSeq(s, 1, Len(s) - 1)) ELSE s

StrStrip(s) == StripRight(StripLeft(s))

\* the value of a string of decimal digits
RECURSIVE DigitsVal(_)
DigitsVal(s) ==
    IF s = <<>> THEN 0 ELSE 10 * DigitsVal(SubSeq(s, 1, Len(s) - 1)) + DigitVal(s[Len(s)])

AllDigits(s) == \A i \in 1..Len(s) : IsDigit(s[i])

\* position of the first occurrence of character c in s, 0 if none
FirstIndex(s, c) ==
    IF \E i \in 1..Len(s) : s[i] = c
    THEN CHOOSE i \in 1..Len(s) : s[i] = c /\ \A j \in 1..(i - 1) : s[j] # c
    ELSE 0

RECURSIVE Pow10(_)
Pow10(n) == IF n = 0 THEN 1 ELSE 10 * Pow10(n - 1)

RECURSIVE SeqSum(_)
SeqSum(s) == IF s = <<>> THEN 0 ELSE Head(s) + SeqSum(Tail(s))

\* fixed-point scale of the modelled floats: four decimal places
FracDigits == 4

Scale == Pow10(FracDigits)

-----------------------------------------------------------------------------
(* Python values.  A float is [t |-> "num", v |-> n] (n in units of 1/Scale),*)
(* [t |-> "nan"] or [t |-> "inf", v |-> sign]; an int is [t |-> "int", v];  *)
(* None is PyNone; a raised exception is [t |-> "raise", e |-> its type].   *)

PyNone == [t |-> "None"]

Raise(e) == [t |-> "raise", e |-> e]

IsRaise(x) == x.t = "raise"

\* the value of integer part ip and fraction part fpc as a fixed-point number
DecimalValue(ip, fpc) ==
    DigitsVal(ip) * Scale + DigitsVal(fpc) * Pow10(FracDigits - Len(fpc))

DecimalOfParts(ip, fp) ==
    IF AllDigits(ip) /\ AllDigits(fp) /\ Len(ip) + Len(fp) > 0
    THEN [ok |-> TRUE,
          v  |-> DecimalValue(ip, SubSeq(fp, 1, IF Len(fp) < FracDigits THEN Len(fp)
                                                 ELSE FracDigits))]
    ELSE [ok |-> FALSE, v |-> 0]

DecimalSplitAt(s, dot) ==
    DecimalOfParts(IF dot = 0 THEN s ELSE SubSeq(s, 1, dot - 1),
                   IF dot = 0 THEN <<>> ELSE SubSeq(s, dot + 1, Len(s)))

\* the decimal literal s (digits, optionally a point and digits) as a fixed-point
\* number; FALSE-tagged when s is no such literal.  Digits past FracDigits are cut.
ParseDecimal(s) == DecimalSplitAt(s, FirstIndex(s, "."))

\* the builtin float(x) on a str: blanks stripped, an optional sign, then a decimal
\* literal, "nan", "inf" or "infinity" in any case; anything else is a ValueError.
\* (Exponents and digit-group underscores are not in the cells the model draws.)
FloatOfBody(neg, low, dec) ==
    IF low = <<"n", "a", "n">> THEN [t |-> "nan"]
    ELSE IF low = <<"i", "n", "f">> \/ low = <<"i", "n", "f", "i", "n", "i", "t", "y">>
         THEN [t |-> "inf", v |-> IF neg THEN -1 ELSE 1]
    ELSE IF dec.ok THEN [t |-> "num", v |-> IF neg THEN -dec.v ELSE dec.v]
    ELSE Raise("ValueError")

FloatOfSigned(neg, body) == FloatOfBody(neg, StrLower(body), ParseDecimal(body))

FloatOfStripped(s) ==
    FloatOfSigned(s # <<>> /\ Head(s) = "-",
                  IF s # <<>> /\ Head(s) \in {"+", "-"} THEN Tail(s) ELSE s)

PyFloat(x) == FloatOfStripped(StrStrip(x))

\* the builtin int(f) on a float: truncation toward zero; nan and inf raise
PyIntOfFloat(f) ==
    IF f.t = "num"
    THEN [t |-> "int", v |-> IF f.v >= 0 THEN f.v \div Scale ELSE -((-f.v) \div Scale)]
    ELSE IF f.t = "nan" THEN Raise("ValueError")
    ELSE Raise("OverflowError")

\* pd.isna(x) on a scalar: a str cell is never NA
PdIsNa(x) == x.t \in {"None", "nan"}

\* try: ... except Exception: return None
NoneIfRaises(r) == IF IsRaise(r) THEN PyNone ELSE r

\* _safe_float: the cell is always a str here (dtype=str, keep_default_na=False,
\* fillna("")), so pd.isna(x) is False and the result is float(x), or None when
\* float raises.
_safe_float(x) == NoneIfRaises(PyFloat(x))

\* int(float(x)), with the exception of either call
IntOfFloatText(f) == IF IsRaise(f) THEN f ELSE PyIntOfFloat(f)

\* a variant of _safe_int without its except clause
SafeIntNoExcept(x) == IntOfFloatText(PyFloat(x))

\* _safe_int: int(float(x)), or None when float or int raises
_safe_int(x) == NoneIfRaises(IntOfFloatText(PyFloat(x)))

-----------------------------------------------------------------------------
(* Dates.                                                                  *)

IsLeap(y) == (y % 4 = 0 /\ y % 100 # 0) \/ y % 400 = 0

DaysInMonth(y, m) ==
    IF m = 2 THEN (IF IsLeap(y) THEN 29 ELSE 28)
    ELSE IF m \in {4, 6, 9, 11} THEN 30 ELSE 31

\* the separator found at position i of s
sep3(s, i) == IF i = 0 THEN "" ELSE s[i]

Split3At2(s, i, rest, j) ==
    IF i = 0 \/ j = 0 \/ FirstIndex(SubSeq(rest, j + 1, Len(rest)), sep3(s, i)) # 0 THEN <<>>
    ELSE <<SubSeq(s, 1, i - 1), SubSeq(rest, 1, j - 1), SubSeq(rest, j + 1, Len(rest))>>

Split3At1(s, sep, i, rest) == Split3At2(s, i, rest, FirstIndex(rest, sep))

Split3At(s, sep, i) == Split3At1(s, sep, i, IF i = 0 THEN <<>> ELSE SubSeq(s, i + 1, Len(s)))

\* s split at character sep into exactly three parts, or <<>> when it does not
\* hold exactly two separators
Split3(s, sep) == Split3At(s, sep, FirstIndex(s, sep))

\* a datetime from the three fields of a date, as datetime.strptime accepts them:
\* %d and %m one or two digits, %Y four digits, the day within its month
MakeDate(ds, ms, ys) ==
    LET d == DigitsVal(ds)
        m == DigitsVal(ms)
        y == DigitsVal(ys)
    IN  IF /\ AllDigits(ds) /\ Len(ds) \in {1, 2}
           /\ AllDigits(ms) /\ Len(ms) \in {1, 2}
           /\ AllDigits(ys) /\ Len(ys) = 4
           /\ y >= 1 /\ m \in 1..12 /\ d >= 1 /\ d <= DaysInMonth(y, m)
        THEN [t |-> "dt", y |-> y, m |-> m, d |-> d]
        ELSE Raise("ValueError")

\* datetime.strptime(s, fmt) for the two formats of the script
StrptimeParts(p, fmt) ==
    IF p = <<>> THEN Raise("ValueError")
    ELSE IF fmt = "%d.%m.%Y" THEN MakeDate(p[1], p[2], p[3])
    ELSE MakeDate(p[3], p[2], p[1])

Strptime(s, fmt) == StrptimeParts(Split3(s, IF fmt = "%d.%m.%Y" THEN "." ELSE "-"), fmt)

DATE_FMT == "%d.%m.%Y"

\* the first of the two parses that did not raise, else None
FirstParsed(r1, r2) ==
    IF ~IsRaise(r1) THEN r1 ELSE IF ~IsRaise(r2) THEN r2 ELSE PyNone

ParseDateStripped(s) ==
    IF s = <<>> THEN PyNone ELSE FirstParsed(Strptime(s, DATE_FMT), Strptime(s, "%Y-%m-%d"))

\* _parse_date_ddmmyyyy: None for a blank cell; else the first of DD.MM.YYYY and
\* YYYY-MM-DD that parses; else None
_parse_date_ddmmyyyy(x) == ParseDateStripped(StrStrip(x))

\* days from 1970-01-01 to the date (proleptic Gregorian calendar)
DaysFromCivil(y, m, d) ==
    LET yy  == IF m <= 2 THEN y - 1 ELSE y
        era == yy \div 400
        yoe == yy - era * 400
        mp  == IF m > 2 THEN m - 3 ELSE m + 9
        doy == (153 * mp + 2) \div 5 + d - 1
        doe == yoe * 365 + yoe \div 4 - yoe \div 100 + doy
    IN  era * 146097 + doe - 719468

\* datetime.timestamp() of a naive datetime at midnight, local time taken as UTC
Timestamp(dt) == DaysFromCivil(dt.y, dt.m, dt.d) * 86400

-----------------------------------------------------------------------------
(* Generic sequence helpers.                                               *)

Reverse(s) == [i \in 1..Len(s) |-> s[Len(s) + 1 - i]]

\* the indices 1..n of the elements of s whose index is in the set keep, in order
RECURSIVE IndicesIn(_, _)
IndicesIn(n, keep) ==
    IF n = 0 THEN <<>>
    ELSE IF n \in keep THEN Append(IndicesIn(n - 1, keep), n) ELSE IndicesIn(n - 1, keep)

PermsOf(n) == {p \in [1..n -> 1..n] : \A i, j \in 1..n : p[i] = p[j] => i = j}

-----------------------------------------------------------------------------
(* build_site.py: files and the table.                                     *)

\* the thirteen columns of publications.csv the script uses (keep_cols)
RowFields == {"record_type", "year", "category", "subtype", "citation", "doi",
              "mnicsw_points", "impact_factor", "start_date", "end_date", "city",
              "country", "award"}

OutNames == {"publications.json", "summary.json", "cv.pdf", "cv.docx"}

\* the files the two fetch scripts write
FetchOutNames == {"metrics.json", "scholar_publications.json"}

AllOutNames == OutNames \cup FetchOutNames

\* an environment variable that is not set (os.getenv then gives None or the default)
Unset == "[unset]"

\* what an output file holds before the run (a previous run's output, or nothing)
Old == [t |-> "old"]

Event(op, f) == [op |-> op, f |-> f]

\* encodings_to_try
EncodingsToTry == <<"utf-8-sig", "utf-8", "cp1250", "iso-8859-2", "latin1">>

\* the bytes above 0x7F the modelled files hold, each written as one character
HighBytes == {"<83>", "<A1>", "<B3>"}

\* what a codec gives for a byte it has no character for
Undecodable == "[undecodable]"

\* one byte of the file under encoding=enc.  ASCII is the same in the five
\* encodings.  A lone byte above 0x7F is not valid UTF-8; cp1250 has no character
\* at 0x83; cp1250, iso-8859-2 and latin1 disagree on 0xA1, and latin1 differs
\* from the other two on 0xB3.
DecodeChar(c, enc) ==
    IF c \notin HighBytes THEN c
    ELSE IF enc \in {"utf-8-sig", "utf-8"} THEN Undecodable
    ELSE IF enc = "cp1250"
         THEN (IF c = "<83>" THEN Undecodable ELSE IF c = "<A1>" THEN "U+02C7" ELSE "U+0142")
    ELSE IF enc = "iso-8859-2"
         THEN (IF c = "<83>" THEN "U+0083" ELSE IF c = "<A1>" THEN "U+0104" ELSE "U+0142")
    ELSE (IF c = "<83>" THEN "U+0083" ELSE IF c = "<A1>" THEN "U+00A1" ELSE "U+00B3")

DecodeText(s, enc) == [k \in 1..Len(s) |-> DecodeChar(s[k], enc)]

\* the cells of the table as text under encoding=enc
DecodeRows(rows, enc) ==
    [i \in 1..Len(rows) |-> [f \in DOMAIN rows[i] |-> DecodeText(rows[i][f], enc)]]

\* pd.read_csv(PUBLICATIONS_CSV, encoding=enc, sep=None, engine="python"): the
\* file's bytes decode under the encodings in csvFile.decodable, and the decoded
\* text is a table only if csvFile.parses
ReadCsv(file, enc) ==
    IF enc \notin file.decodable THEN Raise("UnicodeDecodeError")
    ELSE IF ~file.parses THEN Raise("ParserError")
    ELSE [t |-> "table", rows |-> DecodeRows(file.rows, enc)]

\* a variant of the loop that gives up at the first failure
TryEncodingsFirstOnly(file, k) == <<EncodingsToTry[k]>>

RECURSIVE TryEncodingsNoBreak(_, _)
\* a variant of the loop without its break: every encoding is tried
TryEncodingsNoBreak(file, k) ==
    IF k > Len(EncodingsToTry) THEN <<>>
    ELSE <<EncodingsToTry[k]>> \o TryEncodingsNoBreak(file, k + 1)

\* the loop over encodings_to_try: the encodings tried until the first success
\* (all of them when none succeeds)
RECURSIVE TryEncodings(_, _)
TryEncodings(file, k) ==
    IF k > Len(EncodingsToTry) THEN <<>>
    ELSE IF ~IsRaise(ReadCsv(file, EncodingsToTry[k])) THEN <<EncodingsToTry[k]>>
    ELSE <<EncodingsToTry[k]>> \o TryEncodings(file, k + 1)

\* the columns load_publications_df adds to one row
CoerceRow(r) ==
    [src               |-> r,
     year_int          |-> _safe_int(r.year),
     mnicsw_points_num |-> _safe_float(r.mnicsw_points),
     impact_factor_num |-> _safe_float(r.impact_factor),
     start_date_dt     |-> _parse_date_ddmmyyyy(r.start_date),
     end_date_dt       |-> _parse_date_ddmmyyyy(r.end_date)]

Coerce(rows) == [i \in 1..Len(rows) |-> CoerceRow(rows[i])]

\* the exceptions the coercions of a table raise (none: the helpers catch them)
CoerceErrors(d) ==
    {d[i].year_int.e : i \in {j \in 1..Len(d) : IsRaise(d[j].year_int)}}
    \cup {d[i].mnicsw_points_num.e : i \in {j \in 1..Len(d) : IsRaise(d[j].mnicsw_points_num)}}
    \cup {d[i].impact_factor_num.e : i \in {j \in 1..Len(d) : IsRaise(d[j].impact_factor_num)}}

\* Series.apply infers the dtype of the new column: int64 when every value is an
\* int, float64 (None become NaN) when ints and None mix, object when all are None
YearColumnIsInt(d) == d # <<>> /\ \A i \in 1..Len(d) : d[i].year_int.t = "int"

\* load_scholar_metrics: the default record of a missing metrics.json
DefaultMetrics ==
    [source |-> "Google Scholar", author_id |-> "", profile_url |-> "",
     citations_all |-> "", citations_since_2016 |-> "", h_index_all |-> "",
     h_index_since_2016 |-> "", i10_index_all |-> "", i10_index_since_2016 |-> "",
     last_updated |-> "", note |-> "metrics.json not found"]

\* dict.get(key, default)
DictGet(d, key, default) == IF key \in DOMAIN d THEN d[key] ELSE default

\* json.loads of a file's text: the value, or a JSONDecodeError
JsonLoads(file) ==
    IF file.st = "malformed" THEN Raise("JSONDecodeError")
    ELSE [t |-> file.st, v |-> file.v]

-----------------------------------------------------------------------------
(* build_site.py: compute_summary.                                         *)

\* Series.dropna(): the values that are neither None nor NaN
RECURSIVE DropNa(_)
DropNa(col) ==
    IF col = <<>> THEN <<>>
    ELSE IF PdIsNa(Head(col)) THEN DropNa(Tail(col))
    ELSE <<Head(col)>> \o DropNa(Tail(col))

\* Series.sum() of floats: IEEE addition, where opposite infinities give NaN
FloatSum(col) ==
    LET pos == \E i \in 1..Len(col) : col[i].t = "inf" /\ col[i].v = 1
        neg == \E i \in 1..Len(col) : col[i].t = "inf" /\ col[i].v = -1
        fin == [i \in 1..Len(col) |-> IF col[i].t = "num" THEN col[i].v ELSE 0]
    IN  IF pos /\ neg THEN [t |-> "nan"]
        ELSE IF pos THEN [t |-> "inf", v |-> 1]
        ELSE IF neg THEN [t |-> "inf", v |-> -1]
        ELSE [t |-> "num", v |-> SeqSum(fin)]

\* the number of decimals compute_summary rounds the impact-factor sum to
RoundDigits == 3

\* round(x, nd) of a finite float: the nearest multiple of 10^-nd (halves to even)
RoundNum(v, nd) ==
    LET unit == Pow10(FracDigits - nd)
        a    == IF v >= 0 THEN v ELSE -v
        q    == a \div unit
        r    == a % unit
        up   == 2 * r > unit \/ (2 * r = unit /\ q % 2 = 1)
        m    == (IF up THEN q + 1 ELSE q) * unit
    IN  IF v >= 0 THEN m ELSE -m

\* a variant of round that leaves the number as it is
PyRoundNoRounding(x, nd) == x

\* round(x, nd) of a float: NaN and the infinities are returned as they are
PyRound(x, nd) ==
    IF x.t = "num" THEN [t |-> "num", v |-> RoundNum(x.v, nd)] ELSE x

ColumnOf(d, col) == [i \in 1..Len(d) |-> d[i][col]]

\* the masks of compute_summary, as sets of row indices
IsListA(d) == {i \in 1..Len(d) : StrUpper(d[i].src.category) = <<"A">>}

IsChapter(d) ==
    {i \in 1..Len(d) :
        \/ d[i].src.record_type = <<"b","o","o","k","_","c","h","a","p","t","e","r">>
        \/ StrContains(StrLower(d[i].src.category),
                       <<"b","o","o","k"," ","c","h","a","p","t","e","r">>)}

IsListB(d) == {i \in 1..Len(d) : StrUpper(d[i].src.category) = <<"B">>} \cup IsChapter(d)

IsConf(d) ==
    {i \in 1..Len(d) :
        \/ d[i].src.record_type = <<"c","o","n","f","e","r","e","n","c","e","_",
                                    "c","o","n","t","r","i","b","u","t","i","o","n">>
        \/ StrLower(d[i].src.category) = <<"c","o","n","f","e","r","e","n","c","e">>}

ConfOral(d) ==
    {i \in IsConf(d) : StrContains(StrLower(d[i].src.subtype), <<"o","r","a","l">>)}

ConfPoster(d) ==
    {i \in IsConf(d) : StrContains(StrLower(d[i].src.subtype), <<"p","o","s","t","e","r">>)}

\* the years that parsed, with the number of rows of each
YearCounts(d) ==
    LET ys == {d[i].year_int.v : i \in {j \in 1..Len(d) : d[j].year_int.t = "int"}}
    IN  [y \in ys |-> Cardinality({i \in 1..Len(d) :
                                      d[i].year_int.t = "int" /\ d[i].year_int.v = y})]

TotalPoints(d) == FloatSum(DropNa(ColumnOf(d, "mnicsw_points_num")))

TotalIfUnrounded(d) == FloatSum(DropNa(ColumnOf(d, "impact_factor_num")))

TotalIf(d) == PyRound(TotalIfUnrounded(d), RoundDigits)

\* int(x) if float(x).is_integer() else x
IntIfInteger(x) ==
    IF x.t = "num" /\ x.v % Scale = 0 THEN [t |-> "int", v |-> x.v \div Scale] ELSE x

\* compute_summary(df, metrics); metrics.get raises when metrics.json held a JSON
\* value that is not an object
ComputeSummary(d, m) ==
    IF m.t # "object" THEN Raise("AttributeError")
    ELSE
    [t |-> "summary",
     totals |->
        [mnicsw_points                  |-> IntIfInteger(TotalPoints(d)),
         sum_impact_factor              |-> TotalIf(d),
         records_total                  |-> Len(d),
         publications_list_a            |-> Cardinality(IsListA(d)),
         publications_list_b            |-> Cardinality(IsListB(d)),
         book_chapters                  |-> Cardinality(IsChapter(d)),
         conference_contributions_total |-> Cardinality(IsConf(d)),
         conference_oral_presentations  |-> Cardinality(ConfOral(d)),
         conference_posters             |-> Cardinality(ConfPoster(d)),
         conference_type_unspecified    |->
             Cardinality(IsConf(d) \ (ConfOral(d) \cup ConfPoster(d)))],
     scholar_metrics |->
        [citations_all |-> DictGet(m.v, "citations_all", ""),
         h_index_all   |-> DictGet(m.v, "h_index_all", ""),
         i10_index_all |-> DictGet(m.v, "i10_index_all", ""),
         last_updated  |-> DictGet(m.v, "last_updated", ""),
         profile_url   |-> DictGet(m.v, "profile_url", "")],
     year_counts |-> YearCounts(d),
     year_keys_float |-> ~YearColumnIsInt(d)]

-----------------------------------------------------------------------------
(* build_site.py: export_publications_json.                                *)

\* sort_key's year: row.get("year_int") is an int only when the whole column is
\* int64; in a float64 column (some year did not parse) every value is a float,
\* and in an object column it is None: isinstance(y, int) fails and y is -1
SortKeyYear(d, i) == IF YearColumnIsInt(d) THEN d[i].year_int.v ELSE -1

\* sort_key's timestamp: that of start_date_dt, 0.0 when there is none
SortKeyTs(d, i) ==
    IF d[i].start_date_dt.t = "dt" THEN Timestamp(d[i].start_date_dt) ELSE 0

\* (y1, ts1) >= (y2, ts2), as Python orders tuples
KeyGeq(d, i, j) ==
    \/ SortKeyYear(d, i) > SortKeyYear(d, j)
    \/ SortKeyYear(d, i) = SortKeyYear(d, j) /\ SortKeyTs(d, i) >= SortKeyTs(d, j)

\* sort_values(by="_sort", ascending=False): the orders of the rows that descend by
\* key; the order of rows with equal keys depends on the library's sort and version
ExportOrders(d) ==
    {p \in PermsOf(Len(d)) : \A i, j \in 1..Len(d) : i < j => KeyGeq(d, p[i], p[j])}

\* df_sorted[keep_cols].to_dict(orient="records")
ExportRecords(d, p) == [i \in 1..Len(d) |-> d[p[i]].src]

-----------------------------------------------------------------------------
(* Text building for the CV.  A text is a sequence of strings: the characters *)
(* of the cells, and the literals of the script as single tokens.            *)

\* str(n) of a non-negative int
RECURSIVE NatToText(_)
NatToText(n) ==
    IF n < 10 THEN <<Digits[n + 1]>> ELSE Append(NatToText(n \div 10), Digits[(n % 10) + 1])

IntToText(n) == IF n < 0 THEN <<"-">> \o NatToText(-n) ELSE NatToText(n)

\* n as exactly w digits (w >= the number of digits of n)
RECURSIVE PadNat(_, _)
PadNat(n, w) == IF w = 0 THEN <<>> ELSE Append(PadNat(n \div 10, w - 1), Digits[(n % 10) + 1])

\* the decimals of a fraction f (in units of 1/Scale), trailing zeros dropped but
\* one digit kept
RECURSIVE DropTrailingZeros(_)
DropTrailingZeros(s) ==
    IF Len(s) > 1 /\ s[Len(s)] = "0" THEN DropTrailingZeros(SubSeq(s, 1, Len(s) - 1)) ELSE s

\* str(x) of a float or an int, as Python prints it (no exponent in this range)
PyStr(x) ==
    IF x.t = "int" THEN IntToText(x.v)
    ELSE IF x.t = "nan" THEN <<"nan">>
    ELSE IF x.t = "inf" THEN (IF x.v = 1 THEN <<"inf">> ELSE <<"-inf">>)
    ELSE LET a == IF x.v >= 0 THEN x.v ELSE -x.v
         IN  (IF x.v < 0 THEN <<"-">> ELSE <<>>)
             \o NatToText(a \div Scale) \o <<".">>
             \o DropTrailingZeros(PadNat(a % Scale, FracDigits))

\* sep.join(parts)
RECURSIVE Join(_, _)
Join(parts, sep) ==
    IF parts = <<>> THEN <<>>
    ELSE IF Len(parts) = 1 THEN parts[1]
    ELSE parts[1] \o <<sep>> \o Join(Tail(parts), sep)

\* [x for x in parts if x]
RECURSIVE NonEmpty(_)
NonEmpty(parts) ==
    IF parts = <<>> THEN <<>>
    ELSE IF Head(parts) = <<>> THEN NonEmpty(Tail(parts))
    ELSE <<Head(parts)>> \o NonEmpty(Tail(parts))

\* _rl_escape: xml.sax.saxutils.escape replaces &, < and > by their entities
RECURSIVE _rl_escape(_)
_rl_escape(s) ==
    IF s = <<>> THEN <<>>
    ELSE (IF Head(s) = "&" THEN <<"&", "a", "m", "p", ";">>
          ELSE IF Head(s) = "<" THEN <<"&", "l", "t", ";">>
          ELSE IF Head(s) = ">" THEN <<"&", "g", "t", ";">>
          ELSE <<Head(s)>>) \o _rl_escape(Tail(s))

\* what a ReportLab Paragraph shows for its markup: the entities resolved; a bare
\* "<" opens a tag, which is not shown
RECURSIVE RlRender(_)
RlRender(m) ==
    IF m = <<>> THEN <<>>
    ELSE IF Len(m) >= 5 /\ SubSeq(m, 1, 5) = <<"&", "a", "m", "p", ";">>
         THEN <<"&">> \o RlRender(SubSeq(m, 6, Len(m)))
    ELSE IF Len(m) >= 4 /\ SubSeq(m, 1, 4) = <<"&", "l", "t", ";">>
         THEN <<"<">> \o RlRender(SubSeq(m, 5, Len(m)))
    ELSE IF Len(m) >= 4 /\ SubSeq(m, 1, 4) = <<"&", "g", "t", ";">>
         THEN <<">">> \o RlRender(SubSeq(m, 5, Len(m)))
    ELSE IF Head(m) = "<"
         THEN (IF FirstIndex(m, ">") = 0 THEN <<>>
               ELSE RlRender(SubSeq(m, FirstIndex(m, ">") + 1, Len(m))))
    ELSE <<Head(m)>> \o RlRender(Tail(m))

\* datetime.strftime("%d.%m.%Y")
Strftime(dt) ==
    PadNat(dt.d, 2) \o <<".">> \o PadNat(dt.m, 2) \o <<".">> \o NatToText(dt.y)

\* _format_date_range(start, end)
FormatRange(start_dt, end_dt) ==
    IF start_dt.t = "dt" /\ end_dt.t = "dt"
    THEN (IF start_dt = end_dt THEN Strftime(start_dt)
          ELSE Strftime(start_dt) \o <<"[en-dash]">> \o Strftime(end_dt))
    ELSE IF start_dt.t = "dt" THEN Strftime(start_dt)
    ELSE <<>>

_format_date_range(start, end) ==
    FormatRange(_parse_date_ddmmyyyy(start), _parse_date_ddmmyyyy(end))

-----------------------------------------------------------------------------
(* Sorting as the table library does it for short tables.                  *)

\* one insertion of numpy's insertion sort: x moves left past every element it is
\* less than, from the right end, and stops at the first it is not less than
RECURSIVE InsertSorted(_, _, _)
InsertSorted(sorted, x, less) ==
    IF sorted # <<>> /\ less[<<x, sorted[Len(sorted)]>>]
    THEN Append(InsertSorted(SubSeq(sorted, 1, Len(sorted) - 1), x, less), sorted[Len(sorted)])
    ELSE Append(sorted, x)

RECURSIVE InsertionSort(_, _)
InsertionSort(s, less) ==
    IF s = <<>> THEN <<>>
    ELSE InsertSorted(InsertionSort(SubSeq(s, 1, Len(s) - 1), less), s[Len(s)], less)

\* nargsort(ascending=False): the items reversed, sorted ascending, and the
\* result reversed, so that equal items keep their order
SortDescending(s, less) == Reverse(InsertionSort(Reverse(s), less))

-----------------------------------------------------------------------------
(* build_site.py: the CV, as a PDF story and as a DOCX document.           *)

Para(style, text) == [k |-> "para", style |-> style, text |-> text]

Spacer == [k |-> "spacer"]

Heading(level, text) == [k |-> "heading", level |-> level, text |-> text]

\* the header fields of the profile, in the order both renderers use
HeaderFields == <<"role", "affiliation", "location", "email">>

HeaderParts(prof) == NonEmpty([i \in 1..4 |-> DictGet(prof, HeaderFields[i], <<>>)])

\* " · ".join(f"{k}: {v}" for k, v in links.items())
LinkLine(links) ==
    Join([i \in 1..Len(links) |-> links[i][1] \o <<": ">> \o links[i][2]], "[middot]")

\* str() of a scholar metric, which the model holds as one token
MetricText(v) == IF v = "" THEN <<>> ELSE <<v>>

\* summary_rows / items: the label and the value of each line of the summary
SummaryItems(sm) ==
    LET totals  == sm.totals
        scholar == sm.scholar_metrics
    IN  << <<"MNiSW points (computed)", PyStr(totals.mnicsw_points)>>,
           <<"Sum of journal impact factors (computed)", PyStr(totals.sum_impact_factor)>>,
           <<"Publications (List A)", PyStr([t |-> "int", v |-> totals.publications_list_a])>>,
           <<"Other publications (List B)", PyStr([t |-> "int", v |-> totals.publications_list_b])>>,
           <<"Book chapters", PyStr([t |-> "int", v |-> totals.book_chapters])>>,
           <<"Conference contributions (total)",
             PyStr([t |-> "int", v |-> totals.conference_contributions_total])>>,
           <<"Google Scholar citations", MetricText(scholar.citations_all)>>,
           <<"Google Scholar h-index", MetricText(scholar.h_index_all)>>,
           <<"Google Scholar last updated", MetricText(scholar.last_updated)>> >>

\* the masks of the three add_section calls and of the conference block
MaskListA(d) == {i \in 1..Len(d) : StrUpper(d[i].src.category) = <<"A">>}

MaskListB(d) == {i \in 1..Len(d) : StrUpper(d[i].src.category) = <<"B">>}

MaskChapters(d) == IsChapter(d)

MaskConf(d) == IsConf(d)

\* year_int < year_int, for the rows whose year parsed
YearLess(d) ==
    [pr \in (1..Len(d)) \X (1..Len(d)) |->
        /\ d[pr[1]].year_int.t = "int" /\ d[pr[2]].year_int.t = "int"
        /\ d[pr[1]].year_int.v < d[pr[2]].year_int.v]

\* add_section's sort_values(by=["year_int"], ascending=False): the rows of the
\* mask by year descending, those without a year last
SectionOrder(d, mask) ==
    SortDescending(IndicesIn(Len(d), {i \in mask : d[i].year_int.t = "int"}), YearLess(d))
    \o IndicesIn(Len(d), {i \in mask : d[i].year_int.t # "int"})

\* the text of one numbered entry of add_section
ExtraLine(extras) ==
    IF extras # <<>> THEN <<" (">> \o Join(extras, "; ") \o <<")">> ELSE <<>>

EntryText(n, r) ==
    NatToText(n) \o <<". ">> \o r.citation
    \o ExtraLine((IF r.mnicsw_points # <<>> THEN << <<"MNiSW: ">> \o r.mnicsw_points >> ELSE <<>>)
                 \o (IF r.impact_factor # <<>> THEN << <<"IF: ">> \o r.impact_factor >> ELSE <<>>)
                 \o (IF r.doi # <<>> THEN << <<"DOI: ">> \o r.doi >> ELSE <<>>))

\* the year of the conference sort key, `r["year_int"] or 0`: the int of an int64
\* column, the float of a float64 column (NaN, which is truthy, where the year did
\* not parse), 0 for the None of an object column
ConfYearIsNan(d, i) ==
    /\ d[i].year_int.t # "int"
    /\ \E j \in MaskConf(d) : d[j].year_int.t = "int"

ConfYear(d, i) == IF d[i].year_int.t = "int" THEN d[i].year_int.v ELSE 0

\* (ts1, y1) < (ts2, y2) as Python orders tuples; every comparison with NaN is false
ConfLess(d) ==
    [pr \in (1..Len(d)) \X (1..Len(d)) |->
        IF SortKeyTs(d, pr[1]) # SortKeyTs(d, pr[2])
        THEN SortKeyTs(d, pr[1]) < SortKeyTs(d, pr[2])
        ELSE /\ ~ConfYearIsNan(d, pr[1]) /\ ~ConfYearIsNan(d, pr[2])
             /\ ConfYear(d, pr[1]) < ConfYear(d, pr[2])]

\* conf.sort_values(by="_sort", ascending=False)
ConfOrder(d) == SortDescending(IndicesIn(Len(d), MaskConf(d)), ConfLess(d))

\* the text of one numbered conference entry
ConfTail(parts) ==
    IF parts # <<>> THEN <<"[em-dash]">> \o Join(parts, "[middot]") ELSE <<>>

ConfEntryText(n, r) ==
    NatToText(n) \o <<". ">> \o r.citation
    \o ConfTail(NonEmpty(<<r.subtype,
                           _format_date_range(r.start_date, r.end_date),
                           Join(NonEmpty(<<r.city, r.country>>), ", "),
                           r.award>>))

\* generate_cv_pdf's add_section
PdfEntries(d, ord) ==
    IF ord = <<>> THEN <<Para("Body", <<"No records.">>), Spacer>>
    ELSE [j \in 1..(2 * Len(ord)) |->
             IF j % 2 = 1
             THEN Para("Body", _rl_escape(EntryText((j + 1) \div 2, d[ord[(j + 1) \div 2]].src)))
             ELSE Spacer]
         \o <<Spacer>>

PdfSection(d, title, mask) ==
    <<Para("H2", _rl_escape(<<title>>))>> \o PdfEntries(d, SectionOrder(d, mask))

\* generate_cv_pdf's conference block: the frame is sorted only when it is not empty
PdfConfEntries(d, ord) ==
    [j \in 1..(2 * Len(ord)) |->
        IF j % 2 = 1
        THEN Para("Body", _rl_escape(ConfEntryText((j + 1) \div 2, d[ord[(j + 1) \div 2]].src)))
        ELSE Spacer]

PdfConferences(d) ==
    <<Para("H2", _rl_escape(<<"Conference contributions">>))>>
    \o (IF MaskConf(d) = {} THEN <<Para("Body", <<"No records.">>)>>
        ELSE PdfConfEntries(d, ConfOrder(d)))

\* generate_cv_pdf: the story handed to doc.build, or the exception raised before
PdfLinks(links) ==
    IF links # <<>> THEN <<Para("Small", _rl_escape(LinkLine(links)))>> ELSE <<>>

PdfStory(prof, sm, d) ==
    IF prof.t # "object" THEN Raise("AttributeError")
    ELSE
    [t |-> "pdf", story |->
        <<Para("H1", _rl_escape(DictGet(prof.v, "name", <<"Name">>))),
          Para("Body", _rl_escape(Join(HeaderParts(prof.v), "[middot]")))>>
        \o PdfLinks(DictGet(prof.v, "links", <<>>))
        \o <<Spacer,
             Para("H2", <<"Summary">>),
             [k |-> "table", rows |-> SummaryItems(sm)],
             Spacer>>
        \o PdfSection(d, "Peer-reviewed publications (List A)", MaskListA(d))
        \o PdfSection(d, "Other publications (List B)", MaskListB(d))
        \o PdfSection(d, "Book chapters", MaskChapters(d))
        \o PdfConferences(d)]

\* generate_cv_docx's add_section
DocxEntries(d, ord) ==
    IF ord = <<>> THEN <<Para("Normal", <<"No records.">>)>>
    ELSE [j \in 1..Len(ord) |-> Para("Normal", EntryText(j, d[ord[j]].src))]

DocxSection(d, title, mask) ==
    <<Heading(1, <<title>>)>> \o DocxEntries(d, SectionOrder(d, mask))

\* generate_cv_docx's conference block sorts the frame before it tests it for
\* emptiness.  conf.apply(..., axis=1) on a frame without rows gives, depending on
\* the version of the table library, an empty column, or a copy of the frame; and
\* assigning a frame of several columns to conf["_sort"] raises ValueError.
DocxConfRaises(d, emptyApplyIsFrame) == MaskConf(d) = {} /\ emptyApplyIsFrame

\* generate_cv_docx's conference block, when the sort did not raise
DocxConfEntries(d, ord) ==
    IF ord = <<>> THEN <<Para("Normal", <<"No records.">>)>>
    ELSE [j \in 1..Len(ord) |-> Para("Normal", ConfEntryText(j, d[ord[j]].src))]

DocxConferences(d) ==
    <<Heading(1, <<"Conference contributions">>)>> \o DocxConfEntries(d, ConfOrder(d))

\* generate_cv_docx after the import: the document handed to doc.save, or the
\* exception raised before
DocxHeader(header) == IF header # <<>> THEN <<Para("Normal", header)>> ELSE <<>>

DocxLinks(links) == IF links # <<>> THEN <<Para("Normal", LinkLine(links))>> ELSE <<>>

DocxSummary(its) ==
    [j \in 1..Len(its) |-> Para("Normal", <<its[j][1]>> \o <<": ">> \o its[j][2])]

DocxDoc(prof, sm, d, emptyApplyIsFrame) ==
    IF prof.t # "object" THEN Raise("AttributeError")
    ELSE IF DocxConfRaises(d, emptyApplyIsFrame) THEN Raise("ValueError")
    ELSE
    [t |-> "docx", doc |->
        <<Heading(0, DictGet(prof.v, "name", <<"Name">>))>>
        \o DocxHeader(Join(HeaderParts(prof.v), "[middot]"))
        \o DocxLinks(DictGet(prof.v, "links", <<>>))
        \o <<Heading(1, <<"Summary">>)>>
        \o DocxSummary(SummaryItems(sm))
        \o DocxSection(d, "Peer-reviewed publications (List A)", MaskListA(d))
        \o DocxSection(d, "Other publications (List B)", MaskListB(d))
        \o DocxSection(d, "Book chapters", MaskChapters(d))
        \o DocxConferences(d)]

-----------------------------------------------------------------------------
(* build_site.py: main, one action per statement of main.                  *)

Fail(e) == pc' = "failed" /\ exc' = e

WriteFile(f, content) ==
    /\ outFiles' = [outFiles EXCEPT ![f] = [writes |-> @.writes + 1, content |-> content]]
    /\ log' = Append(log, Event("write", f))

\* a variant of load_profile that takes a missing file for a bare profile
LoadProfileMissingIsEmpty(file) ==
    IF file.st = "absent" THEN [t |-> "object", v |-> [name |-> <<"N">>]] ELSE JsonLoads(file)

\* load_profile(): the value of profile.json, or the exception raised
load_profile(file) ==
    IF file.st = "absent" THEN Raise("FileNotFoundError") ELSE JsonLoads(file)

\* a variant of load_scholar_metrics that requires the file, as load_profile does
LoadMetricsMissingRaises(file) ==
    IF file.st = "absent" THEN Raise("FileNotFoundError") ELSE JsonLoads(file)

\* load_scholar_metrics(): the default record when metrics.json is missing, else
\* the value of the file, or the exception raised
load_scholar_metrics(file) ==
    IF file.st = "absent" THEN [t |-> "object", v |-> DefaultMetrics] ELSE JsonLoads(file)

\* the opens for reading a loader does: none when the file does not exist
ReadsOf(file, name) == IF file.st = "absent" THEN <<>> ELSE <<Event("read", name)>>

\* profile = load_profile()
LoadProfileResult(r) ==
    IF IsRaise(r)
    THEN Fail(r.e) /\ UNCHANGED profile
    ELSE profile' = r /\ pc' = "load_metrics" /\ UNCHANGED exc

LoadProfile ==
    /\ script = "build" /\ pc = "load_profile"
    /\ log' = log \o ReadsOf(profileFile, "profile.json")
    /\ LoadProfileResult(load_profile(profileFile))
    /\ UNCHANGED <<profileFile, metricsFile, csvFile, docxAvail, metrics, df, encTried,
                   summary, outFiles, script>>
    /\ UNCHANGED fetchVars

\* metrics = load_scholar_metrics()
LoadScholarMetricsResult(r) ==
    IF IsRaise(r)
    THEN Fail(r.e) /\ UNCHANGED metrics
    ELSE metrics' = r /\ pc' = "load_csv" /\ UNCHANGED exc

LoadScholarMetrics ==
    /\ script = "build" /\ pc = "load_metrics"
    /\ log' = log \o ReadsOf(metricsFile, "metrics.json")
    /\ LoadScholarMetricsResult(load_scholar_metrics(metricsFile))
    /\ UNCHANGED <<profileFile, metricsFile, csvFile, docxAvail, profile, df, encTried,
                   summary, outFiles, script>>
    /\ UNCHANGED fetchVars

\* df = load_publications_df()
\* the coercions of lines 135-141 on the table read
CoerceResult(d, errors) ==
    IF errors # {}
    THEN Fail(CHOOSE e \in errors : TRUE) /\ UNCHANGED df
    ELSE df' = d /\ pc' = "export" /\ UNCHANGED exc

CoerceTable(d) == CoerceResult(d, CoerceErrors(d))

\* `if last_err and df is None: raise last_err`, then the coercions
ReadResult(last) ==
    IF IsRaise(last) THEN Fail(last.e) /\ UNCHANGED df ELSE CoerceTable(Coerce(last.rows))

\* the reads of the loop over encodings_to_try, one open of the file each
ReadAttempts(tried) ==
    /\ encTried' = tried
    /\ log' = log \o [i \in 1..Len(tried) |-> Event("read", "publications.csv")]
    /\ ReadResult(ReadCsv(csvFile, tried[Len(tried)]))

LoadPublicationsDf ==
    /\ script = "build" /\ pc = "load_csv"
    /\ IF csvFile.st = "absent"
       THEN Fail("FileNotFoundError") /\ UNCHANGED <<df, encTried, log>>
       ELSE ReadAttempts(TryEncodings(csvFile, 1))
    /\ UNCHANGED <<profileFile, metricsFile, csvFile, docxAvail, profile, metrics,
                   summary, outFiles, script>>
    /\ UNCHANGED fetchVars

\* export_publications_json(df)
ExportPublicationsJson ==
    /\ script = "build" /\ pc = "export"
    /\ \E p \in ExportOrders(df) :
          WriteFile("publications.json", [t |-> "json", v |-> ExportRecords(df, p)])
    /\ pc' = "summary"
    /\ UNCHANGED <<exc, profileFile, metricsFile, csvFile, docxAvail, profile, metrics, df,
                   encTried, summary, script>>
    /\ UNCHANGED fetchVars

\* summary = compute_summary(df, metrics); SUMMARY_JSON.write_text(json.dumps(summary))
WriteSummaryResult(sm) ==
    IF IsRaise(sm)
    THEN Fail(sm.e) /\ UNCHANGED <<summary, outFiles, log>>
    ELSE /\ summary' = sm
         /\ WriteFile("summary.json", [t |-> "json", v |-> sm])
         /\ pc' = "pdf"
         /\ UNCHANGED exc

WriteSummary ==
    /\ script = "build" /\ pc = "summary"
    /\ WriteSummaryResult(ComputeSummary(df, metrics))
    /\ UNCHANGED <<profileFile, metricsFile, csvFile, docxAvail, profile, metrics, df,
                   encTried, script>>
    /\ UNCHANGED fetchVars

\* generate_cv_pdf(profile, summary, df): the file is written by doc.build(story),
\* the last statement
GenerateResult(r, f, next) ==
    IF IsRaise(r)
    THEN Fail(r.e) /\ UNCHANGED <<outFiles, log>>
    ELSE WriteFile(f, r) /\ pc' = next /\ UNCHANGED exc

GenerateCvPdf ==
    /\ script = "build" /\ pc = "pdf"
    /\ GenerateResult(PdfStory(profile, summary, df), "cv.pdf", "docx")
    /\ UNCHANGED <<profileFile, metricsFile, csvFile, docxAvail, profile, metrics, df,
                   encTried, summary, script>>
    /\ UNCHANGED fetchVars

\* a variant of generate_cv_docx without the try around the import
GenerateCvDocxImportRaises ==
    /\ script = "build" /\ pc = "docx"
    /\ IF ~docxAvail
       THEN Fail("ModuleNotFoundError") /\ UNCHANGED <<outFiles, log>>
       ELSE \E emptyApplyIsFrame \in BOOLEAN :
              GenerateResult(DocxDoc(profile, summary, df, emptyApplyIsFrame),
                             "cv.docx", "print")
    /\ UNCHANGED <<profileFile, metricsFile, csvFile, docxAvail, profile, metrics, df,
                   encTried, summary, script>>
    /\ UNCHANGED fetchVars

\* generate_cv_docx(profile, summary, df): returns at once when docx cannot be
\* imported; the file is written by doc.save, the last statement
GenerateCvDocx ==
    /\ script = "build" /\ pc = "docx"
    /\ IF ~docxAvail
       THEN pc' = "print" /\ UNCHANGED <<exc, outFiles, log>>
       ELSE \E emptyApplyIsFrame \in BOOLEAN :
              GenerateResult(DocxDoc(profile, summary, df, emptyApplyIsFrame),
                             "cv.docx", "print")
    /\ UNCHANGED <<profileFile, metricsFile, csvFile, docxAvail, profile, metrics, df,
                   encTried, summary, script>>
    /\ UNCHANGED fetchVars

\* print("Build completed.") and the four paths
PrintCompleted ==
    /\ script = "build" /\ pc = "print"
    /\ pc' = "done"
    /\ UNCHANGED <<exc, log, script>>
    /\ UNCHANGED buildVars
    /\ UNCHANGED fetchVars

NextBuild ==
    \/ LoadProfile
    \/ LoadScholarMetrics
    \/ LoadPublicationsDf
    \/ ExportPublicationsJson
    \/ WriteSummary
    \/ GenerateCvPdf
    \/ GenerateCvDocx
    \/ PrintCompleted

-----------------------------------------------------------------------------
(* build_site.py: the inputs a run can find on disk.                       *)

JsonFile(st, v) == [st |-> st, v |-> v]

BlankRow == [f \in RowFields |-> <<>>]

T_article == <<"a","r","t","i","c","l","e">>

T_book_chapter == <<"b","o","o","k","_","c","h","a","p","t","e","r">>

T_conference_contribution ==
    <<"c","o","n","f","e","r","e","n","c","e","_","c","o","n","t","r","i","b","u","t","i","o","n">>

\* sample rows: a List A article, a conference talk, a chapter
RowArticle ==
    [BlankRow EXCEPT !.record_type = T_article, !.year = <<"2","0","2","1">>,
                     !.category = <<"A">>, !.citation = <<"P","&","Q">>,
                     !.mnicsw_points = <<"1","4","0">>, !.impact_factor = <<"2",".","5">>]

RowTalk ==
    [BlankRow EXCEPT !.record_type = T_conference_contribution,
                     !.year = <<"2","0","2","0">>, !.citation = <<"T">>,
                     !.subtype = <<"o","r","a","l">>,
                     !.start_date = <<"0","1",".","0","6",".","2","0","2","0">>,
                     !.end_date = <<"0","3",".","0","6",".","2","0","2","0">>,
                     !.city = <<"W">>]

RowChapter ==
    [BlankRow EXCEPT !.record_type = T_book_chapter, !.year = <<>>,
                     !.category = <<"b">>, !.citation = <<"C","h">>]

SampleTables == {<<>>, <<RowArticle>>, <<RowTalk, RowArticle>>, <<RowChapter, RowArticle, RowTalk>>}

SampleProfile ==
    [name |-> <<"D", "&", "T">>, role |-> <<"PhD">>, email |-> <<"d@t">>,
     links |-> << <<<<"ORCID">>, <<"0000">>>> >>]

ProfileFiles ==
    {JsonFile("absent", <<>>), JsonFile("malformed", <<>>), JsonFile("array", <<>>),
     JsonFile("object", SampleProfile), JsonFile("object", [name |-> <<"N">>])}

SampleMetrics ==
    [source |-> "Google Scholar (via SerpApi)", author_id |-> "M1",
     profile_url |-> "https://scholar/M1", citations_all |-> "120",
     h_index_all |-> "7", i10_index_all |-> "5", last_updated |-> "01.02.2025"]

MetricsFiles ==
    {JsonFile("absent", <<>>), JsonFile("malformed", <<>>), JsonFile("array", <<>>),
     JsonFile("object", SampleMetrics), JsonFile("object", [author_id |-> ""]),
     JsonFile("object", [citations_all |-> "9"])}

\* the sets of encodings a file's bytes can decode under: iso-8859-2 and latin1
\* decode every byte; utf-8 and utf-8-sig accept the same byte sequences
DecodableSets ==
    {{"iso-8859-2", "latin1"} \cup u \cup c :
        u \in {{}, {"utf-8-sig", "utf-8"}}, c \in {{}, {"cp1250"}}}

AllEncodings == {EncodingsToTry[i] : i \in 1..Len(EncodingsToTry)}

CsvAbsent == [st |-> "absent", decodable |-> {}, parses |-> FALSE, rows |-> <<>>]

CsvFile(dec, parses, rows) ==
    [st |-> "present", decodable |-> dec, parses |-> parses, rows |-> rows]

CsvFiles(tables) ==
    {CsvFile(dec, TRUE, rows) : dec \in DecodableSets, rows \in tables}
    \cup {CsvFile(dec, FALSE, <<>>) : dec \in DecodableSets}

\* the state of a build run before main's first statement
InitRun(profiles, metricsFiles, csvFiles, docx) ==
    /\ script = "build"
    /\ pc = "load_profile"
    /\ exc = "none"
    /\ profileFile \in profiles
    /\ metricsFile \in metricsFiles
    /\ csvFile \in csvFiles
    /\ docxAvail \in docx
    /\ profile = PyNone
    /\ metrics = PyNone
    /\ df = <<>>
    /\ encTried = <<>>
    /\ summary = PyNone
    /\ outFiles = [f \in AllOutNames |-> [writes |-> 0, content |-> Old]]
    /\ log = <<>>
    /\ env = [api_key |-> Unset, author |-> Unset, hl |-> Unset]
    /\ server = <<>>
    /\ url = ""
    /\ params = PyNone
    /\ items = <<>>
    /\ authorId = ""
    /\ sent = <<>>
    /\ data = PyNone

\* every combination of present, missing and unreadable inputs, with sample tables
InitBuild ==
    InitRun(ProfileFiles, MetricsFiles, {CsvAbsent} \cup CsvFiles(SampleTables), BOOLEAN)

SpecBuild == InitBuild /\ [][NextBuild]_vars

-----------------------------------------------------------------------------
(* build_site.py: tables for the numeric columns, the sort and the CV.     *)

\* cells of the year column: empty, a year, a year with decimals, padded, text, nan
YearCells ==
    {<<>>, <<"2","0","2","0">>, <<"2","0","2","1",".","7">>, <<" ","2","0","1","9">>,
     <<"n",".","d",".">>, <<"n","a","n">>}

\* cells of the points column: empty, text, whole, fractional, negative, nan
PointsCells ==
    {<<>>, <<"x">>, <<"1","0">>, <<"2",".","5">>, <<"-","3">>, <<"N","a","N">>}

\* cells of the impact-factor column: empty, text, four decimals, one decimal
IfCells == {<<>>, <<"-">>, <<"1",".","2","3","4","4">>, <<"0",".","5">>}

NumBaseRow == [BlankRow EXCEPT !.record_type = T_article, !.category = <<"A">>,
                                !.citation = <<"P">>]

\* rows that vary the year, rows that vary the points, rows that vary the impact
\* factor
NumRowSet ==
    {[NumBaseRow EXCEPT !.year = y] : y \in YearCells}
    \cup {[NumBaseRow EXCEPT !.mnicsw_points = p, !.impact_factor = <<"0", ".", "5">>] :
             p \in PointsCells}
    \cup {[NumBaseRow EXCEPT !.mnicsw_points = <<"1", "0">>, !.impact_factor = f] :
             f \in IfCells}

\* row i of a table starts on day i, so that no two rows have the same sort key
NumDate(i) == <<"0", Digits[i + 1], ".", "0", "1", ".", "2", "0", "2", "1">>

NumTables(maxLen) ==
    UNION {{[i \in 1..n |-> [rs[i] EXCEPT !.start_date = NumDate(i)]] :
               rs \in [1..n -> NumRowSet]} :
           n \in 0..maxLen}

ReadableCsv(tables) == {CsvFile(AllEncodings, TRUE, rows) : rows \in tables}

InitNum ==
    InitRun({JsonFile("object", SampleProfile)}, {JsonFile("absent", <<>>)},
            ReadableCsv(NumTables(MaxRows)), {TRUE})

SpecNum == InitNum /\ [][NextBuild]_vars

\* cells of the year and start_date columns of the sorted tables; the last date
\* lies before 1970
SortYears == {<<>>, <<"2","0","2","0">>, <<"2","0","2","1">>}

SortDates ==
    {<<>>, <<"0","1",".","0","6",".","2","0","2","0">>,
     <<"2","0","2","0","-","0","9","-","0","1">>,
     <<"0","1",".","0","1",".","1","9","6","0">>}

\* row i of a table carries its position in its citation
SortRow(i, y, sd) ==
    [BlankRow EXCEPT !.record_type = T_conference_contribution, !.year = y,
                     !.start_date = sd, !.citation = <<"c", Digits[i + 1]>>]

SortTables(maxLen) ==
    UNION {{[i \in 1..n |-> SortRow(i, ys[i], ds[i])] :
               ys \in [1..n -> SortYears], ds \in [1..n -> SortDates]} :
           n \in 0..maxLen}

InitSort ==
    InitRun({JsonFile("object", SampleProfile)}, {JsonFile("object", SampleMetrics)},
            ReadableCsv(SortTables(MaxSortRows)), {FALSE})

SpecSort == InitSort /\ [][NextBuild]_vars

\* the category and record_type cells of the rows of the CV tables: articles of
\* list A and of list B, chapters by category and by type, conference
\* contributions by category and by type, and one that is of list A as well
CvKinds ==
    {<<<<"A">>, T_article>>, <<<<"b">>, T_article>>,
     <<<<"B","o","o","k"," ","c","h","a","p","t","e","r","s">>, T_article>>,
     <<<<>>, T_book_chapter>>,
     <<<<"c","o","n","f","e","r","e","n","c","e">>, T_article>>,
     <<<<>>, T_conference_contribution>>,
     <<<<"A">>, T_conference_contribution>>}

\* cells of the year column of the CV tables
CvYears == {<<>>, <<"2","0","2","0">>, <<"2","0","2","1">>}

\* row i of a CV table: the other cells follow from the year, so that rows with a
\* year carry points, an impact factor and dates (starting on day i), and rows
\* without carry none
CvRow(i, c, rt, y) ==
    [BlankRow EXCEPT
        !.record_type = rt, !.category = c, !.year = y,
        !.citation = <<"<", "c", Digits[i + 1], "&">>,
        !.mnicsw_points = IF y = <<>> THEN <<>> ELSE <<"7","0">>,
        !.impact_factor = IF y = <<"2","0","2","1">> THEN <<"1",".","5">> ELSE <<>>,
        !.doi = IF y = <<"2","0","2","0">> THEN <<"1","0",".","1","/","x">> ELSE <<>>,
        !.subtype = IF y = <<>> THEN <<>> ELSE <<"o","r","a","l">>,
        !.start_date = IF y = <<>> THEN <<>> ELSE <<"0", Digits[i + 1], ".", "0", "6", ".">> \o y,
        !.end_date = IF y = <<"2","0","2","1">> THEN <<"2","0","2","1","-","0","6","-","0","3">>
                     ELSE <<>>,
        !.city = IF y = <<"2","0","2","0">> THEN <<"W">> ELSE <<>>,
        !.country = IF y = <<>> THEN <<>> ELSE <<"P","L">>]

CvTables(maxLen) ==
    UNION {{[i \in 1..n |-> CvRow(i, ks[i][1], ks[i][2], ys[i])] :
               ks \in [1..n -> CvKinds], ys \in [1..n -> CvYears]} :
           n \in 0..maxLen}

InitCv ==
    InitRun({JsonFile("object", SampleProfile)}, {JsonFile("object", SampleMetrics)},
            ReadableCsv(CvTables(MaxCvRows)), {TRUE})

SpecCv == InitCv /\ [][NextBuild]_vars

\* citation cells as bytes: ASCII, and bytes on which the encodings differ
EncCitations ==
    {<<"P">>, <<"W", "<B3>">>, <<"<A1>">>, <<"<83>", "x">>, <<"Z", "<A1>", "<B3>">>}

EncRow(i, c) ==
    [BlankRow EXCEPT !.record_type = T_article, !.category = <<"A">>, !.citation = c,
                     !.start_date = NumDate(i)]

EncTables(maxLen) ==
    UNION {{[i \in 1..n |-> EncRow(i, cs[i])] : cs \in [1..n -> EncCitations]} :
           n \in 0..maxLen}

\* the encodings under which every byte of the table decodes
DecodableUnder(rows) ==
    {enc \in AllEncodings :
        \A i \in 1..Len(rows) : \A f \in RowFields : \A k \in 1..Len(rows[i][f]) :
            DecodeChar(rows[i][f][k], enc) # Undecodable}

\* files whose bytes form a table, and files that decode but hold no table
EncCsvFiles(tables) ==
    {CsvFile(DecodableUnder(rows), TRUE, rows) : rows \in tables}
    \cup {CsvFile(dec, FALSE, <<>>) : dec \in DecodableSets}

InitEnc ==
    InitRun({JsonFile("object", SampleProfile)}, {JsonFile("absent", <<>>)},
            EncCsvFiles(EncTables(MaxEncRows)), BOOLEAN)

SpecEnc == InitEnc /\ [][NextBuild]_vars

-----------------------------------------------------------------------------
(* The fetch scripts: values of the remote API and of the environment.     *)

\* os.getenv(name, default)
Getenv(v, default) == IF v = Unset THEN default ELSE v

\* a variant of the key check that tests `is None` only
FalsyOnlyNone(v) == v = Unset

\* `not v` of an os.getenv(name) result: None and the empty string are falsy
Falsy(v) == v = Unset \/ v = ""

Dict(v) == [t |-> "dict", v |-> v]

StrV(x) == [t |-> "str", v |-> x]

IntV(n) == [t |-> "int", v |-> n]

SERPAPI_ENDPOINT == "https://serpapi.com/search.json"

\* the next links of the pages, by page number
NextLinks == <<"next-2", "next-3", "next-4", "next-5", "next-6", "next-7", "next-8", "next-9">>

\* the article of page i: with a cited_by object, without cited_by, with a cited_by
\* that is not an object
ArticleOf(i) ==
    IF i % 3 = 1
    THEN [title |-> StrV(<<"t", Digits[i + 1]>>), cited_by |-> Dict([value |-> IntV(7)])]
    ELSE IF i % 3 = 2
    THEN [title |-> StrV(<<"t", Digits[i + 1]>>)]
    ELSE [title |-> StrV(<<"t", Digits[i + 1]>>), cited_by |-> StrV(<<"n/a">>)]

\* the cited_by table of an author page, with one row in the French spelling
SampleCitedTable ==
    << [citations  |-> Dict([all |-> IntV(120), since_2016 |-> IntV(80)])],
       [h_index    |-> Dict([all |-> IntV(6), depuis_2016 |-> IntV(5)])],
       [indice_i10 |-> Dict([all |-> IntV(4)])] >>

\* the kinds of answer: a failed request, or a page with n articles and with or
\* without a next link
PageKinds ==
    {[ok |-> FALSE, n |-> 0, more |-> FALSE]}
    \cup {[ok |-> TRUE, n |-> c, more |-> m] : c \in 0..1, m \in BOOLEAN}

\* the answer of kind k to request number i
Response(i, k) ==
    [ok      |-> k.ok,
     payload |->
        (IF k.n = 0 THEN <<>>
         ELSE [articles |-> <<ArticleOf(i)>>, cited_by |-> Dict([table |-> SampleCitedTable])])
        @@ (IF k.more THEN [serpapi_pagination |-> Dict([next |-> NextLinks[i]])]
            ELSE <<>>)]

Servers(maxLen) ==
    UNION {{[i \in 1..n |-> Response(i, ks[i])] : ks \in [1..n -> PageKinds]} :
           n \in 1..maxLen}

\* the answer to request number n: a server whose last page has a next link goes
\* on serving its pages again
ServerAnswer(srv, n) == srv[((n - 1) % Len(srv)) + 1]

\* the requests a run may send before the model stops it
MaxRequests == MaxPages + 1

\* datetime.now()
FetchDates == {[t |-> "dt", y |-> 2025, m |-> 1, d |-> 9], [t |-> "dt", y |-> 2024, m |-> 12, d |-> 31]}

\* datetime.strftime("%Y-%m-%d")
StrftimeIso(dt) ==
    PadNat(dt.y, 4) \o <<"-">> \o PadNat(dt.m, 2) \o <<"-">> \o PadNat(dt.d, 2)

HttpGet(u, p) ==
    /\ sent' = Append(sent, [url |-> u, params |-> p])
    /\ log' = Append(log, Event("http", u))

-----------------------------------------------------------------------------
(* fetch_scholar_publications_serpapi.py.                                  *)

\* a variant of load_author_id where the environment variable comes first
LoadAuthorIdEnvFirst(file, e) ==
    IF ~Falsy(e.author) THEN StrV(e.author)
    ELSE IF file.st = "object" /\ DictGet(file.v, "author_id", "") # ""
    THEN StrV(DictGet(file.v, "author_id", ""))
    ELSE Raise("RuntimeError")

\* load_author_id, after metrics.json was read and parsed
AuthorIdOf(loaded, e) ==
    IF IsRaise(loaded) THEN loaded
    ELSE IF loaded.t = "object" /\ DictGet(loaded.v, "author_id", "") # ""
    THEN StrV(DictGet(loaded.v, "author_id", ""))
    ELSE IF ~Falsy(e.author) THEN StrV(e.author)
    ELSE Raise("RuntimeError")

\* load_author_id(): the id as a str value, or the exception raised; a metrics.json
\* that does not exist counts as one without an id
load_author_id(file, e) ==
    AuthorIdOf(IF file.st = "absent" THEN PyNone ELSE JsonLoads(file), e)

\* fetch_all_articles' params of the first request
QueryParams(author_id, api_key) ==
    [t |-> "dict", engine |-> "google_scholar_author", author_id |-> author_id,
     hl |-> "en", api_key |-> api_key, start |-> 0]

\* a variant of the loop body that keeps the articles of the last page only
ExtendItemsLastPage(its, payload) == DictGet(payload, "articles", <<>>)

\* items.extend(payload.get("articles", []))
ExtendItems(its, payload) == its \o DictGet(payload, "articles", <<>>)

\* payload.get("serpapi_pagination", {}).get("next")
NextUrl(payload) == DictGet(DictGet(payload, "serpapi_pagination", Dict(<<>>)).v, "next", "")

\* the cited_by of an output item
CitedByOf(c) == IF c.t = "dict" THEN DictGet(c.v, "value", PyNone) ELSE PyNone

\* the item main writes for an article
ItemOf(article) ==
    [title       |-> DictGet(article, "title", StrV(<<>>)),
     link        |-> DictGet(article, "link", StrV(<<>>)),
     year        |-> DictGet(article, "year", StrV(<<>>)),
     authors     |-> DictGet(article, "authors", StrV(<<>>)),
     publication |-> DictGet(article, "publication", StrV(<<>>)),
     cited_by    |-> CitedByOf(DictGet(article, "cited_by", Dict(<<>>)))]

PubsOutput(author_id, articles, now) ==
    [source       |-> "Google Scholar (via SerpApi)",
     author_id    |-> author_id,
     profile_url  |-> <<"https://scholar.google.com/citations?hl=en&user=", author_id>>,
     generated_on |-> StrftimeIso(now),
     items        |-> [i \in 1..Len(articles) |-> ItemOf(articles[i])]]

\* main: api_key = os.getenv("SERPAPI_API_KEY"); if not api_key: raise RuntimeError
PubsCheckKey ==
    /\ script = "pubs" /\ pc = "check_key"
    /\ IF Falsy(env.api_key) THEN Fail("RuntimeError") ELSE pc' = "load_author" /\ UNCHANGED exc
    /\ UNCHANGED <<log, script>>
    /\ UNCHANGED buildVars
    /\ UNCHANGED fetchVars

\* main: author_id = load_author_id()
PubsLoadAuthorIdResult(r) ==
    IF IsRaise(r)
    THEN Fail(r.e) /\ UNCHANGED authorId
    ELSE authorId' = r.v /\ pc' = "fetch_start" /\ UNCHANGED exc

PubsLoadAuthorId ==
    /\ script = "pubs" /\ pc = "load_author"
    /\ log' = log \o ReadsOf(metricsFile, "metrics.json")
    /\ PubsLoadAuthorIdResult(load_author_id(metricsFile, env))
    /\ UNCHANGED <<env, server, url, params, items, sent, data, script>>
    /\ UNCHANGED buildVars

\* fetch_all_articles, up to the loop
FetchAllArticlesStart ==
    /\ script = "pubs" /\ pc = "fetch_start"
    /\ params' = QueryParams(authorId, env.api_key)
    /\ url' = SERPAPI_ENDPOINT
    /\ items' = <<>>
    /\ pc' = "request"
    /\ UNCHANGED <<exc, log, env, server, authorId, sent, data, script>>
    /\ UNCHANGED buildVars

\* one pass of fetch_all_articles' loop, on the answer to its request
AfterResponse(resp) ==
    IF ~resp.ok
    THEN Fail("HTTPError") /\ UNCHANGED <<url, params, items>>
    ELSE /\ items' = ExtendItems(items, resp.payload)
         /\ UNCHANGED exc
         /\ IF NextUrl(resp.payload) = ""
            THEN pc' = "write" /\ UNCHANGED <<url, params>>
            ELSE url' = NextUrl(resp.payload) /\ params' = PyNone /\ pc' = "request"

FetchAllArticlesRequest ==
    /\ script = "pubs" /\ pc = "request"
    /\ Len(sent) < MaxRequests
    /\ HttpGet(url, params)
    /\ AfterResponse(ServerAnswer(server, Len(sent) + 1))
    /\ UNCHANGED <<env, server, authorId, data, script>>
    /\ UNCHANGED buildVars

\* main, after fetch_all_articles returned: the items, the output and its write
PubsWrite ==
    /\ script = "pubs" /\ pc = "write"
    /\ \E now \in FetchDates :
          WriteFile("scholar_publications.json",
                    [t |-> "json", v |-> PubsOutput(authorId, items, now)])
    /\ pc' = "done"
    /\ UNCHANGED <<exc, profileFile, metricsFile, csvFile, docxAvail, profile, metrics, df,
                   encTried, summary, script>>
    /\ UNCHANGED fetchVars

-----------------------------------------------------------------------------
(* fetch_scholar_metrics_serpapi.py.                                       *)

\* the first of the keys of ks that d has, or 0
RECURSIVE FirstKeyIn(_, _, _)
FirstKeyIn(d, ks, i) ==
    IF i > Len(ks) THEN 0 ELSE IF ks[i] \in DOMAIN d THEN i ELSE FirstKeyIn(d, ks, i + 1)

SinceKeys == <<"since_2016", "depuis_2016", "since_2017", "since_2018">>

SinceOf(d, i) == IF i = 0 THEN PyNone ELSE d[SinceKeys[i]]

\* _extract_since_key(d): the pair (all, since)
_extract_since_key(d) == <<DictGet(d, "all", PyNone), SinceOf(d, FirstKeyIn(d, SinceKeys, 1))>>

\* the first of the keys of ks that the row has with an object for value, or 0
RECURSIVE FirstDictKey(_, _, _)
FirstDictKey(row, ks, i) ==
    IF i > Len(ks) THEN 0
    ELSE IF ks[i] \in DOMAIN row /\ row[ks[i]].t = "dict" THEN i
    ELSE FirstDictKey(row, ks, i + 1)

SetPair(acc, allKey, sinceKey, pr) == [acc EXCEPT ![allKey] = pr[1], ![sinceKey] = pr[2]]

HKeys == <<"h_index", "indice_h">>

I10Keys == <<"i10_index", "indice_i10">>

SetH(acc, row, i) ==
    IF i = 0 THEN acc
    ELSE SetPair(acc, "h_index_all", "h_index_since_2016", _extract_since_key(row[HKeys[i]].v))

SetI10(acc, row, i) ==
    IF i = 0 THEN acc
    ELSE SetPair(acc, "i10_index_all", "i10_index_since_2016",
                 _extract_since_key(row[I10Keys[i]].v))

\* one pass of the loop of _parse_cited_by_table (every row here is an object)
ParseRow(acc, row) ==
    IF FirstDictKey(row, <<"citations">>, 1) # 0
    THEN SetPair(acc, "citations_all", "citations_since_2016",
                 _extract_since_key(row.citations.v))
    ELSE SetI10(SetH(acc, row, FirstDictKey(row, HKeys, 1)), row, FirstDictKey(row, I10Keys, 1))

RECURSIVE ParseRows(_, _)
ParseRows(acc, rows) ==
    IF rows = <<>> THEN acc ELSE ParseRows(ParseRow(acc, Head(rows)), Tail(rows))

MetricKeys == {"citations_all", "citations_since_2016", "h_index_all", "h_index_since_2016",
               "i10_index_all", "i10_index_since_2016"}

\* _parse_cited_by_table(table) of a table that is a list
_parse_cited_by_table(table) == ParseRows([k \in MetricKeys |-> PyNone], table)

\* data.get("cited_by", {}).get("table", [])
TableOf(payload) == DictGet(DictGet(payload, "cited_by", Dict(<<>>)).v, "table", <<>>)

MetricsParams(author_id, hl, api_key) ==
    [t |-> "dict", engine |-> "google_scholar_author", author_id |-> author_id,
     hl |-> hl, api_key |-> api_key]

MetricsOutput(author_id, hl, parsed, payload, now) ==
    [source      |-> "Google Scholar (via SerpApi)",
     author_id   |-> author_id,
     profile_url |-> <<"https://scholar.google.com/citations?hl=", hl, "&user=", author_id>>,
     last_updated |-> Strftime(now),
     raw |-> [search_metadata   |-> DictGet(payload, "search_metadata", Dict(<<>>)),
              search_parameters |-> DictGet(payload, "search_parameters", Dict(<<>>))]]
    @@ parsed

\* main: the key check, then author_id, hl and params
MetricsCheckKey ==
    /\ script = "metrics" /\ pc = "check_key"
    /\ IF Falsy(env.api_key)
       THEN Fail("SystemExit") /\ UNCHANGED <<authorId, params, url>>
       ELSE /\ authorId' = Getenv(env.author, "Rj58qXIAAAAJ")
            /\ params' = MetricsParams(Getenv(env.author, "Rj58qXIAAAAJ"),
                                       Getenv(env.hl, "en"), env.api_key)
            /\ url' = SERPAPI_ENDPOINT
            /\ pc' = "request"
            /\ UNCHANGED exc
    /\ UNCHANGED <<log, env, server, items, sent, data, script>>
    /\ UNCHANGED buildVars

\* main: r = requests.get(...); r.raise_for_status(); data = r.json()
MetricsAfterResponse(resp) ==
    IF ~resp.ok
    THEN Fail("HTTPError") /\ UNCHANGED data
    ELSE data' = Dict(resp.payload) /\ pc' = "write" /\ UNCHANGED exc

MetricsRequest ==
    /\ script = "metrics" /\ pc = "request"
    /\ HttpGet(url, params)
    /\ MetricsAfterResponse(ServerAnswer(server, 1))
    /\ UNCHANGED <<env, server, url, params, items, authorId, script>>
    /\ UNCHANGED buildVars

\* main: the table parsed, the output and its write
MetricsWrite ==
    /\ script = "metrics" /\ pc = "write"
    /\ \E now \in FetchDates :
          WriteFile("metrics.json",
                    [t |-> "json",
                     v |-> MetricsOutput(authorId, Getenv(env.hl, "en"),
                                         _parse_cited_by_table(TableOf(data.v)), data.v, now)])
    /\ pc' = "done"
    /\ UNCHANGED <<exc, profileFile, metricsFile, csvFile, docxAvail, profile, metrics, df,
                   encTried, summary, script>>
    /\ UNCHANGED fetchVars

NextFetch ==
    \/ PubsCheckKey
    \/ PubsLoadAuthorId
    \/ FetchAllArticlesStart
    \/ FetchAllArticlesRequest
    \/ PubsWrite
    \/ MetricsCheckKey
    \/ MetricsRequest
    \/ MetricsWrite

EnvValues == {Unset, "", "K1"}

AuthorEnvValues == {Unset, "", "E1"}

\* the metrics.json a fetch script finds
FetchMetricsFiles ==
    {JsonFile("absent", <<>>), JsonFile("malformed", <<>>), JsonFile("array", <<>>),
     JsonFile("object", SampleMetrics), JsonFile("object", [author_id |-> ""]),
     JsonFile("object", [citations_all |-> "9"])}

InitFetch ==
    /\ script \in {"pubs", "metrics"}
    /\ pc = "check_key"
    /\ exc = "none"
    /\ profileFile = JsonFile("absent", <<>>)
    /\ metricsFile \in FetchMetricsFiles
    /\ csvFile = CsvAbsent
    /\ docxAvail = FALSE
    /\ profile = PyNone
    /\ metrics = PyNone
    /\ df = <<>>
    /\ encTried = <<>>
    /\ summary = PyNone
    /\ outFiles = [f \in AllOutNames |-> [writes |-> 0, content |-> Old]]
    /\ log = <<>>
    /\ env \in [api_key : EnvValues, author : AuthorEnvValues, hl : {Unset}]
    /\ server \in Servers(MaxPages)
    /\ url = ""
    /\ params = PyNone
    /\ items = <<>>
    /\ authorId = ""
    /\ sent = <<>>
    /\ data = PyNone

SpecFetch == InitFetch /\ [][NextFetch]_vars

-----------------------------------------------------------------------------
(* Properties of a build run.                                              *)

ReadCount(f) == Cardinality({i \in 1..Len(log) : log[i] = Event("read", f)})

WriteCount(f) == Cardinality({i \in 1..Len(log) : log[i] = Event("write", f)})

\* no output file has been written or modified
OutputsUntouched == \A f \in OutNames : outFiles[f] = [writes |-> 0, content |-> Old]

RequiredInputMissing == profileFile.st = "absent" \/ csvFile.st = "absent"

\* a run with a required input missing never gets past the loaders
StopsInLoaders == pc \in {"load_profile", "load_metrics", "load_csv", "failed"}

\* C1 as stated: if profile.json or publications.csv does not exist, the run ends
\* with a FileNotFoundError and no output has been written or modified.
C1_AsStated ==
    RequiredInputMissing =>
        /\ OutputsUntouched
        /\ StopsInLoaders
        /\ (pc = "failed" => exc = "FileNotFoundError")

\* C1, amended: if profile.json or publications.csv does not exist, the run ends
\* with an exception in the loaders and no output has been written or modified; the
\* exception is a FileNotFoundError unless a JSON file loaded before the missing
\* file exists but is malformed, whose JSONDecodeError then ends the run first.
C1_MissingInputWritesNothing ==
    RequiredInputMissing =>
        /\ OutputsUntouched
        /\ WriteCount("publications.json") + WriteCount("summary.json")
             + WriteCount("cv.pdf") + WriteCount("cv.docx") = 0
        /\ StopsInLoaders
        /\ (pc = "failed" =>
              \/ exc = "FileNotFoundError"
              \/ /\ exc = "JSONDecodeError"
                 /\ profileFile.st # "absent"
                 /\ profileFile.st = "malformed" \/ metricsFile.st = "malformed")

\* a run that loaded profile.json and metrics.json and found publications.csv missing
C1_Witness ==
    /\ pc = "failed" /\ exc = "FileNotFoundError"
    /\ csvFile.st = "absent" /\ profileFile.st = "object" /\ metricsFile.st = "object"
    /\ ReadCount("profile.json") = 1

ReadsBeforeWrites ==
    \A i, j \in 1..Len(log) : log[i].op = "write" /\ log[j].op = "read" => j < i

\* C2 as stated: every shared file is read at most once and written at most once;
\* publications.json and summary.json are written exactly once in a successful
\* run; every read of an input precedes every write of an output.
C2_AsStated ==
    /\ ReadCount("profile.json") <= 1
    /\ ReadCount("metrics.json") <= 1
    /\ ReadCount("publications.csv") <= 1
    /\ \A f \in OutNames : WriteCount(f) <= 1 /\ outFiles[f].writes = WriteCount(f)
    /\ (pc = "done" => WriteCount("publications.json") = 1 /\ WriteCount("summary.json") = 1)
    /\ ReadsBeforeWrites

\* C2, amended: profile.json and metrics.json are opened for reading at most once;
\* publications.csv is opened once per encoding tried, that is up to five times,
\* and once only when the first encoding (utf-8-sig) reads it; every output is
\* written at most once, publications.json and summary.json exactly once in a
\* successful run; every read of an input precedes every write of an output.
C2_ReadOnceWriteOnce ==
    /\ ReadCount("profile.json") <= 1
    /\ ReadCount("metrics.json") <= 1
    /\ ReadCount("publications.csv") = Len(encTried)
    /\ ReadCount("publications.csv") <= Len(EncodingsToTry)
    /\ (ReadCount("publications.csv") > 1 => "utf-8-sig" \notin csvFile.decodable \/ ~csvFile.parses)
    /\ (pc \in {"export", "summary", "pdf", "docx", "print", "done"} =>
            /\ ReadCount("profile.json") = 1
            /\ ReadCount("publications.csv") >= 1
            /\ "utf-8-sig" \in csvFile.decodable => ReadCount("publications.csv") = 1)
    /\ \A f \in OutNames : WriteCount(f) <= 1 /\ outFiles[f].writes = WriteCount(f)
    /\ (pc = "done" => WriteCount("publications.json") = 1 /\ WriteCount("summary.json") = 1)
    /\ ReadsBeforeWrites

\* a successful run that read the table at the third encoding
C2_Witness ==
    /\ pc = "done"
    /\ ReadCount("publications.csv") = 3
    /\ ReadCount("metrics.json") = 1
    /\ WriteCount("publications.json") = 1 /\ WriteCount("summary.json") = 1

MetricsMissing == metricsFile.st = "absent"

ScholarFieldsEmpty(sm) ==
    /\ sm.scholar_metrics.citations_all = ""
    /\ sm.scholar_metrics.h_index_all = ""
    /\ sm.scholar_metrics.i10_index_all = ""
    /\ sm.scholar_metrics.last_updated = ""
    /\ sm.scholar_metrics.profile_url = ""

\* C7: a missing metrics.json never fails the build: load_scholar_metrics returns
\* a record of empty metric fields with the note "metrics.json not found", the run
\* goes on to the table, and the summary.json it writes has empty scholar metrics.
C7_MissingMetricsDefault ==
    MetricsMissing =>
        /\ ReadCount("metrics.json") = 0
        /\ (pc = "failed" /\ exc = "FileNotFoundError" => RequiredInputMissing)
        /\ (pc \notin {"load_profile", "load_metrics"} /\ ~IsRaise(load_profile(profileFile)) =>
              /\ metrics.t = "object"
              /\ metrics.v.note = "metrics.json not found"
              /\ \A k \in DOMAIN metrics.v \ {"source", "note"} : metrics.v[k] = "")
        /\ (pc \in {"done", "failed"} /\ ~IsRaise(load_profile(profileFile))
              /\ csvFile.st = "present" /\ csvFile.parses =>
              /\ outFiles["summary.json"].writes = 1
              /\ ScholarFieldsEmpty(outFiles["summary.json"].content.v))
        /\ (outFiles["summary.json"].writes > 0 =>
              ScholarFieldsEmpty(outFiles["summary.json"].content.v))

\* a completed build without metrics.json
C7_Witness ==
    /\ MetricsMissing /\ pc = "done"
    /\ outFiles["summary.json"].writes = 1
    /\ ScholarFieldsEmpty(outFiles["summary.json"].content.v)
    /\ metrics.v.note = "metrics.json not found"

-----------------------------------------------------------------------------
(* Properties of the numeric columns and of the totals.                    *)

\* the run got past load_publications_df
TableLoaded ==
    \/ pc \in {"export", "summary", "pdf", "docx", "print", "done"}
    \/ pc = "failed" /\ outFiles["publications.json"].writes > 0

\* the run ended in load_publications_df or before it
FailedLoading == pc = "failed" /\ outFiles["publications.json"].writes = 0

HasDigit(cell) == \E k \in 1..Len(cell) : IsDigit(cell[k])

\* the spellings without a digit that float() accepts
IsSpecialFloat(cell) == PyFloat(cell).t \in {"nan", "inf"}

\* what the claim allows for a float column: absent exactly when float() rejects
\* the cell, else the number float() gives
FloatCellOk(cell, got) ==
    /\ got.t \in {"None", "num", "nan", "inf"}
    /\ (got.t = "None") = IsRaise(PyFloat(cell))
    /\ (got.t # "None" => got = PyFloat(cell))
    /\ (~HasDigit(cell) /\ ~IsSpecialFloat(cell) => got = PyNone)

\* what the claim allows for the year column: absent when float() rejects the cell
\* or gives no finite number, else that number cut to an integer
IntCellOk(cell, got) ==
    /\ got.t \in {"None", "int"}
    /\ (got.t = "None") = (PyFloat(cell).t # "num")
    /\ (got.t = "int" => got.v * Scale <= PyFloat(cell).v /\ PyFloat(cell).v < (got.v + 1) * Scale)
    /\ (~HasDigit(cell) => got = PyNone)

IsRowPermutation(out, rows) ==
    /\ Len(out) = Len(rows)
    /\ \E p \in PermsOf(Len(rows)) : out = [i \in 1..Len(rows) |-> rows[p[i]]]

NumOrZero(f) == IF f.t = "num" THEN f.v ELSE 0

\* the sum of the values of the cells of a column that parse to a number
RECURSIVE ParsedSum(_, _)
ParsedSum(rows, col) ==
    IF rows = <<>> THEN 0
    ELSE NumOrZero(PyFloat(Head(rows)[col])) + ParsedSum(Tail(rows), col)

\* the value of a total of summary.json, in units of 1/Scale
NumValue(x) == IF x.t = "int" THEN x.v * Scale ELSE x.v

TotalIsSum(total, rows, col) ==
    total.t \in {"int", "num"} /\ NumValue(total) = ParsedSum(rows, col)

\* |a - b| <= half a unit, and a is a multiple of the unit
IsNearestMultiple(a, b, unit) ==
    /\ a % unit = 0
    /\ 2 * (a - b) <= unit /\ 2 * (b - a) <= unit

WrittenTotals == outFiles["summary.json"].content.v.totals

\* C4 as stated: totals.mnicsw_points equals the sum of the parsed mnicsw_points,
\* and totals.sum_impact_factor equals the sum of the parsed impact_factor values.
C4_AsStated ==
    outFiles["summary.json"].writes > 0 =>
        /\ TotalIsSum(WrittenTotals.mnicsw_points, csvFile.rows, "mnicsw_points")
        /\ TotalIsSum(WrittenTotals.sum_impact_factor, csvFile.rows, "impact_factor")

\* C4, amended: totals.mnicsw_points equals the sum of the mnicsw_points values
\* that parsed, rows without one adding nothing; totals.sum_impact_factor equals
\* the sum of the impact_factor values that parsed rounded to three decimals; with
\* no parseable value at all the total is 0.
C4_TotalsAreSums ==
    outFiles["summary.json"].writes > 0 =>
        /\ TotalIsSum(WrittenTotals.mnicsw_points, csvFile.rows, "mnicsw_points")
        /\ WrittenTotals.sum_impact_factor.t = "num"
        /\ IsNearestMultiple(WrittenTotals.sum_impact_factor.v,
                             ParsedSum(csvFile.rows, "impact_factor"),
                             Pow10(FracDigits - RoundDigits))
        /\ ((\A i \in 1..Len(csvFile.rows) : PyFloat(csvFile.rows[i].mnicsw_points).t # "num")
              => WrittenTotals.mnicsw_points = [t |-> "int", v |-> 0])
        /\ ((\A i \in 1..Len(csvFile.rows) : PyFloat(csvFile.rows[i].impact_factor).t # "num")
              => WrittenTotals.sum_impact_factor = [t |-> "num", v |-> 0])

\* a summary over a row with points and a four-decimal impact factor and a row
\* where only the impact factor parses
C4_Witness ==
    /\ outFiles["summary.json"].writes = 1 /\ Len(csvFile.rows) = 2
    /\ \E i \in 1..2 : IsRaise(PyFloat(csvFile.rows[i].mnicsw_points))
    /\ ParsedSum(csvFile.rows, "mnicsw_points") = 10 * Scale
    /\ ParsedSum(csvFile.rows, "impact_factor") = 17344 * (Scale \div 10000)
    /\ WrittenTotals.sum_impact_factor.v = 1734 * (Scale \div 1000)
    /\ WrittenTotals.mnicsw_points = [t |-> "int", v |-> 10]

-----------------------------------------------------------------------------
(* Properties of publications.json's order and of the two CV renderers.    *)

Exported == outFiles["publications.json"].content.v

YearParsed(r) == _safe_int(r.year).t = "int"

StartParsed(r) == _parse_date_ddmmyyyy(r.start_date).t = "dt"

SameYear(a, b) ==
    \/ ~YearParsed(a) /\ ~YearParsed(b)
    \/ YearParsed(a) /\ YearParsed(b) /\ _safe_int(a.year).v = _safe_int(b.year).v

\* record a may stand before record b: by year descending, a record without a
\* year after those with one
YearOrdered(a, b) ==
    YearParsed(b) => YearParsed(a) /\ _safe_int(a.year).v >= _safe_int(b.year).v

\* within one year by start date descending, a record without a start date after
\* those with one
DateOrdered(a, b) ==
    SameYear(a, b) /\ StartParsed(b) =>
        /\ StartParsed(a)
        /\ Timestamp(_parse_date_ddmmyyyy(a.start_date))
             >= Timestamp(_parse_date_ddmmyyyy(b.start_date))

\* C5 as stated: publications.json lists every row of the table exactly once,
\* sorted by year descending and within a year by start date descending; a record
\* whose year did not parse sorts after every record with a year, and a record with
\* no parseable start date after the records of its year that have one.
C5_AsStated ==
    outFiles["publications.json"].writes > 0 =>
        /\ IsRowPermutation(Exported, csvFile.rows)
        /\ \A i, j \in 1..Len(Exported) :
              i < j => YearOrdered(Exported[i], Exported[j])
                       /\ DateOrdered(Exported[i], Exported[j])

\* what the export does keep: every row exactly once
C5_EveryRowOnce ==
    outFiles["publications.json"].writes > 0 => IsRowPermutation(Exported, csvFile.rows)

\* the sections a rendered CV shows, each with its title and its lines of text
NewSection(acc, title) == Append(acc, [title |-> title, lines |-> <<>>])

AddLines(acc, ls) ==
    IF acc = <<>> THEN acc ELSE [acc EXCEPT ![Len(acc)].lines = @ \o ls]

TableLines(rows) == [j \in 1..Len(rows) |-> <<rows[j][1]>> \o <<": ">> \o rows[j][2]]

PdfViewAdd(acc, el) ==
    IF el.k = "spacer" THEN acc
    ELSE IF el.k = "table" THEN AddLines(acc, TableLines(el.rows))
    ELSE IF el.style = "H2" THEN NewSection(acc, RlRender(el.text))
    ELSE AddLines(acc, <<RlRender(el.text)>>)

RECURSIVE PdfView(_)
PdfView(story) ==
    IF story = <<>> THEN <<>>
    ELSE PdfViewAdd(PdfView(SubSeq(story, 1, Len(story) - 1)), story[Len(story)])

DocxViewAdd(acc, el) ==
    IF el.k = "heading" THEN (IF el.level = 1 THEN NewSection(acc, el.text) ELSE acc)
    ELSE AddLines(acc, <<el.text>>)

RECURSIVE DocxView(_)
DocxView(doc) ==
    IF doc = <<>> THEN <<>>
    ELSE DocxViewAdd(DocxView(SubSeq(doc, 1, Len(doc) - 1)), doc[Len(doc)])

SameRendering ==
    PdfView(outFiles["cv.pdf"].content.story) = DocxView(outFiles["cv.docx"].content.doc)

\* generate_cv_docx has returned or raised, with python-docx installed
DocxAttempted == docxAvail /\ outFiles["cv.pdf"].writes = 1 /\ pc \in {"print", "done", "failed"}

C6_SameWhenBothWritten ==
    outFiles["cv.pdf"].writes = 1 /\ outFiles["cv.docx"].writes = 1 => SameRendering

-----------------------------------------------------------------------------
(* Properties of the fetch scripts.                                        *)

KeyMissing == env.api_key = Unset \/ env.api_key = ""

NothingWritten == \A f \in AllOutNames : outFiles[f] = [writes |-> 0, content |-> Old]

\* C8: in both fetch scripts, if SERPAPI_API_KEY is unset or empty the run aborts
\* before any HTTP request is sent and before any file is written, so that
\* metrics.json and scholar_publications.json stay as they were; in the
\* publications script the key check also comes before metrics.json is read.
C8_NoKeyAborts ==
    script \in {"pubs", "metrics"} /\ KeyMissing =>
        /\ sent = <<>>
        /\ log = <<>>
        /\ NothingWritten
        /\ pc \in {"check_key", "failed"}
        /\ (pc = "failed" => exc = (IF script = "pubs" THEN "RuntimeError" ELSE "SystemExit"))

\* the publications script stopped by an empty key, with a metrics.json holding an
\* author id at hand
C8_Witness ==
    /\ script = "pubs" /\ pc = "failed" /\ exc = "RuntimeError"
    /\ env.api_key = "" /\ metricsFile = JsonFile("object", SampleMetrics)
    /\ sent = <<>> /\ ReadCount("metrics.json") = 0

HasNext(resp) ==
    /\ "serpapi_pagination" \in DOMAIN resp.payload
    /\ "next" \in DOMAIN resp.payload.serpapi_pagination.v

\* response n is the first that ends the loop: it failed, or it has no next link
EndsAt(n) ==
    /\ ~ServerAnswer(server, n).ok \/ ~HasNext(ServerAnswer(server, n))
    /\ \A m \in 1..(n - 1) : ServerAnswer(server, m).ok /\ HasNext(ServerAnswer(server, m))

\* the articles of responses 1..n, in request order
RECURSIVE ArticlesUpTo(_)
ArticlesUpTo(n) ==
    IF n = 0 THEN <<>>
    ELSE ArticlesUpTo(n - 1)
         \o (IF "articles" \in DOMAIN ServerAnswer(server, n).payload
             THEN ServerAnswer(server, n).payload.articles ELSE <<>>)

FetchReturned == script = "pubs" /\ pc \in {"write", "done"}

FetchAborted == script = "pubs" /\ pc = "failed" /\ sent # <<>>

\* C9: fetch_all_articles requests one page at a time, each at the next link of the
\* response before; if response k is the first without a next link, exactly k
\* requests are made and the result is the articles of responses 1..k in request
\* order; the query parameters (api_key and start=0 among them) go with the first
\* request only; a failed request aborts with no result, nothing being written;
\* and the function returns only if some response has no next link.
C9_Pagination ==
    script = "pubs" =>
        /\ \A n \in 1..Len(sent) :
              /\ sent[n].url = (IF n = 1 THEN SERPAPI_ENDPOINT
                                ELSE ServerAnswer(server, n - 1).payload.serpapi_pagination.v.next)
              /\ sent[n].params = (IF n = 1 THEN QueryParams(authorId, env.api_key) ELSE PyNone)
              /\ \A m \in 1..(n - 1) : ~EndsAt(m)
        /\ (sent # <<>> => sent[1].params.api_key = env.api_key /\ sent[1].params.start = 0)
        /\ (FetchReturned =>
              /\ EndsAt(Len(sent)) /\ ServerAnswer(server, Len(sent)).ok
              /\ items = ArticlesUpTo(Len(sent)))
        /\ (pc = "done" =>
              /\ outFiles["scholar_publications.json"].writes = 1
              /\ outFiles["scholar_publications.json"].content.v.items
                   = [i \in 1..Len(items) |-> ItemOf(ArticlesUpTo(Len(sent))[i])])
        /\ (FetchAborted =>
              /\ exc = "HTTPError"
              /\ EndsAt(Len(sent)) /\ ~ServerAnswer(server, Len(sent)).ok
              /\ NothingWritten)
        /\ (pc = "request" /\ sent # <<>> => HasNext(ServerAnswer(server, Len(sent))))

\* a completed run of three requests that gathered articles from two pages
C9_Witness ==
    /\ script = "pubs" /\ pc = "done"
    /\ Len(sent) = 3 /\ Len(items) >= 2
    /\ sent[1].params.start = 0 /\ sent[3].params = PyNone
    /\ outFiles["scholar_publications.json"].writes = 1

FileHasAuthorId ==
    /\ metricsFile.st = "object"
    /\ "author_id" \in DOMAIN metricsFile.v
    /\ metricsFile.v.author_id # ""

EnvHasAuthorId == env.author # Unset /\ env.author # ""

AuthorIdResolved == script = "pubs" /\ (pc \in {"fetch_start", "request", "write", "done"} \/ sent # <<>>)

\* the run ended in load_author_id
FailedResolving == script = "pubs" /\ ~KeyMissing /\ pc = "failed" /\ sent = <<>>

Precedence ==
    AuthorIdResolved =>
        /\ FileHasAuthorId => authorId = metricsFile.v.author_id
        /\ ~FileHasAuthorId => EnvHasAuthorId /\ authorId = env.author

\* C10 as stated: a non-empty author_id in an existing metrics.json wins over
\* SCHOLAR_AUTHOR_ID; the variable is used when metrics.json is missing, is not an
\* object, or has an empty or missing author_id; when neither supplies an id a
\* RuntimeError is raised, no request is made and no file is written.
C10_AsStated ==
    script = "pubs" /\ ~KeyMissing =>
        /\ Precedence
        /\ (FileHasAuthorId \/ EnvHasAuthorId => ~FailedResolving)
        /\ (~FileHasAuthorId /\ ~EnvHasAuthorId =>
              /\ ~AuthorIdResolved
              /\ sent = <<>> /\ NothingWritten
              /\ (pc = "failed" => exc = "RuntimeError"))

\* C10, amended: as stated for a metrics.json that is missing or holds valid JSON.
\* A metrics.json that exists but does not parse ends load_author_id with a
\* JSONDecodeError whether or not SCHOLAR_AUTHOR_ID is set: the variable is not
\* consulted, no request is made and no file is written.
C10_AuthorIdPrecedence ==
    script = "pubs" /\ ~KeyMissing =>
        /\ Precedence
        /\ (metricsFile.st = "malformed" =>
              /\ ~AuthorIdResolved
              /\ sent = <<>> /\ NothingWritten
              /\ (pc = "failed" => exc = "JSONDecodeError"))
        /\ (metricsFile.st # "malformed" /\ (FileHasAuthorId \/ EnvHasAuthorId) =>
              ~FailedResolving)
        /\ (metricsFile.st # "malformed" /\ ~FileHasAuthorId /\ ~EnvHasAuthorId =>
              /\ ~AuthorIdResolved
              /\ sent = <<>> /\ NothingWritten
              /\ (pc = "failed" => exc = "RuntimeError"))

\* a completed run where metrics.json and the environment both held an id
C10_Witness ==
    /\ script = "pubs" /\ pc = "done"
    /\ FileHasAuthorId /\ env.author = "E1"
    /\ authorId = "M1"
    /\ outFiles["scholar_publications.json"].content.v.author_id = "M1"
    /\ sent[1].params.author_id = "M1"

-----------------------------------------------------------------------------
(* C11: the encodings of load_publications_df.                             *)

\* a read of the file under enc gives a table
ReadSucceeds(enc) == enc \in csvFile.decodable /\ csvFile.parses

SomeReadSucceeds == \E k \in 1..Len(EncodingsToTry) : ReadSucceeds(EncodingsToTry[k])

\* load_publications_df has run, on a file that exists: main has its profile and
\* its metrics and is past the load
EncodingLoopRan ==
    /\ csvFile.st = "present"
    /\ profile # PyNone /\ metrics # PyNone
    /\ pc \notin {"load_profile", "load_metrics", "load_csv"}

\* the exception a read under enc raises
ReadErrorOf(enc) ==
    IF enc \notin csvFile.decodable THEN "UnicodeDecodeError" ELSE "ParserError"

\* C11: once load_publications_df has run on an existing file, the encodings
\* tried are a prefix of utf-8-sig, utf-8, cp1250, iso-8859-2, latin1, and every
\* one before the last tried failed.  When some encoding reads the file, the last
\* one tried is the first that succeeds, the load does not fail, and the table
\* holds the cells as decoded under that encoding.  When none does, all five were
\* tried and the run ends with the error of the read under latin1.
C11_FirstEncodingThatReads ==
    EncodingLoopRan =>
        /\ encTried # <<>> /\ Len(encTried) <= Len(EncodingsToTry)
        /\ \A i \in 1..Len(encTried) : encTried[i] = EncodingsToTry[i]
        /\ \A i \in 1..(Len(encTried) - 1) : ~ReadSucceeds(encTried[i])
        /\ IF SomeReadSucceeds
           THEN /\ ReadSucceeds(encTried[Len(encTried)])
                /\ ~FailedLoading
                /\ Len(df) = Len(csvFile.rows)
                /\ \A i \in 1..Len(df) : \A f \in RowFields :
                       /\ Len(df[i].src[f]) = Len(csvFile.rows[i][f])
                       /\ \A k \in 1..Len(df[i].src[f]) :
                              df[i].src[f][k] =
                                  DecodeChar(csvFile.rows[i][f][k], encTried[Len(encTried)])
           ELSE /\ encTried = EncodingsToTry
                /\ pc = "failed"
                /\ exc = ReadErrorOf("latin1")
                /\ df = <<>>

\* a table read at the third encoding after two failures, whose text is the
\* cp1250 reading of byte 0xA1
C11_Witness ==
    /\ pc = "done"
    /\ encTried = <<"utf-8-sig", "utf-8", "cp1250">>
    /\ Len(df) = 2
    /\ df[1].src.citation = <<"U+02C7">>
    /\ csvFile.rows[1].citation = <<"<A1>">>

\* every encoding failed, the first with a decoding error, the last with a
\* parsing error, and the parsing error ended the run
C11_AllFailWitness ==
    /\ pc = "failed" /\ exc = "ParserError"
    /\ encTried = EncodingsToTry
    /\ ReadErrorOf("utf-8-sig") = "UnicodeDecodeError"

-----------------------------------------------------------------------------
(* C12: the DOCX output is optional.                                       *)

\* the three outputs a run without python-docx still owes
RequiredOutputs == {"publications.json", "summary.json", "cv.pdf"}

\* generate_cv_docx, called where the docx library cannot be imported, returns
\* to main: nothing is written or opened, nothing is raised
DocxStepReturns ==
    (pc = "docx" /\ ~docxAvail) =>
        /\ pc' = "print"
        /\ exc' = "none" /\ exc = "none"
        /\ outFiles' = outFiles
        /\ log' = log

\* without the docx library: the DOCX file is never written and keeps what it
\* held; no run fails once the PDF is written; a run that reached the call of
\* generate_cv_docx has the three other outputs written, once each
NoDocxState ==
    ~docxAvail =>
        /\ outFiles["cv.docx"] = [writes |-> 0, content |-> Old]
        /\ WriteCount("cv.docx") = 0
        /\ (pc = "failed" => outFiles["cv.pdf"].writes = 0)
        /\ (pc \in {"docx", "print", "done"} =>
               /\ exc = "none"
               /\ \A f \in RequiredOutputs :
                      outFiles[f].writes = 1 /\ outFiles[f].content # Old)

\* C12: when the docx library cannot be imported, generate_cv_docx returns
\* without writing or modifying the DOCX file and without raising, and the run
\* completes with publications.json, summary.json and the CV PDF written.
C12_DocxOptional == []NoDocxState /\ [][DocxStepReturns]_vars

\* a completed run without the docx library: three outputs written, no DOCX
C12_Witness ==
    /\ ~docxAvail /\ pc = "done" /\ exc = "none"
    /\ \A f \in RequiredOutputs : outFiles[f].writes = 1
    /\ outFiles["cv.docx"].writes = 0
    /\ Len(df) = 3

-----------------------------------------------------------------------------
(* C13: the counts of the summary table and the sections of the CV.        *)

\* the sections of a rendered CV with the given title
SectionsTitled(view, title) == {k \in 1..Len(view) : view[k].title = <<title>>}

LinesOf(view, title) == view[CHOOSE k \in SectionsTitled(view, title) : TRUE].lines

\* line j of a section is its numbered entry j: it begins with "j. "
IsNumbered(line, j) ==
    /\ Len(line) > Len(NatToText(j))
    /\ SubSeq(line, 1, Len(NatToText(j)) + 1) = NatToText(j) \o <<". ">>

NumberedEntries(view, title) ==
    Cardinality({j \in 1..Len(LinesOf(view, title)) : IsNumbered(LinesOf(view, title)[j], j)})

\* the summary shows the line "label: n"
ShowsCount(view, label, n) ==
    \E j \in 1..Len(LinesOf(view, "Summary")) :
        LinesOf(view, "Summary")[j] = <<label, ": ">> \o NatToText(n)

\* the labels of the summary table that count a section, each with the title of
\* its section
ListACount == <<"Publications (List A)", "Peer-reviewed publications (List A)">>

ListBCount == <<"Other publications (List B)", "Other publications (List B)">>

ChaptersCount == <<"Book chapters", "Book chapters">>

ConferencesCount == <<"Conference contributions (total)", "Conference contributions">>

CountsMatch(view, pairs) ==
    \A p \in pairs :
        /\ SectionsTitled(view, p[2]) # {} /\ SectionsTitled(view, "Summary") # {}
        /\ ShowsCount(view, p[1], NumberedEntries(view, p[2]))

\* the written files match on the given counts
WrittenCountsMatch(pairs) ==
    /\ outFiles["cv.pdf"].writes = 1 =>
           CountsMatch(PdfView(outFiles["cv.pdf"].content.story), pairs)
    /\ outFiles["cv.docx"].writes = 1 =>
           CountsMatch(DocxView(outFiles["cv.docx"].content.doc), pairs)

\* C13 as stated: for every record set, each count shown in the CV summary table
\* equals the number of numbered entries rendered in the CV section of the same
\* title: list A, list B, book chapters and conference contributions.
C13_AsStated ==
    WrittenCountsMatch({ListACount, ListBCount, ChaptersCount, ConferencesCount})

\* what does hold: the counts of list A, of the book chapters and of the
\* conference contributions are the numbers of entries of their sections
C13_OtherCountsMatch == WrittenCountsMatch({ListACount, ChaptersCount, ConferencesCount})

\* the rows of the table that are chapters but not of category B
ChaptersOutsideB ==
    {i \in 1..Len(df) : i \in IsChapter(df) /\ StrUpper(df[i].src.category) # <<"B">>}

\* and the count shown for list B exceeds the entries of its section by the
\* chapters that are not of category B
C13_ListBCountsChapters ==
    outFiles["cv.pdf"].writes = 1 =>
        ShowsCount(PdfView(outFiles["cv.pdf"].content.story), ListBCount[1],
                   NumberedEntries(PdfView(outFiles["cv.pdf"].content.story), ListBCount[2])
                   + Cardinality(ChaptersOutsideB))

====
